---- MODULE Spec2Model ----
(***************************************************************************)
(* Verification model of OpenPSG/cpap-downloader: the ResMed session       *)
(* reconciliation (src/lib/loader/ResMedLoader.ts, src/lib/loader/Utils.ts)*)
(* and the upload flow of the UI (src/App.tsx).                            *)
(*                                                                         *)
(* Representation.                                                         *)
(*  - Instants are integer milliseconds (Date.getTime()).                  *)
(*  - Quantities the code keeps in seconds as JavaScript numbers           *)
(*    (EDFFileWithDuration.duration, EDFAnnotation.onset/duration) are     *)
(*    kept as exact fixed-point numbers in thousandths of a second, so     *)
(*    "x / 1000" of a millisecond count and "x * 1000" of such a quantity  *)
(*    are exact.  header.recordDuration is a whole number of seconds and   *)
(*    is multiplied by 1000 as in the code.                                *)
(*  - A JavaScript number that can be NaN or infinite is a record          *)
(*    [fin, v]: Fin(n) is the finite integer n, NaN / PosInf / NegInf are  *)
(*    the non-finite values.                                               *)
(***************************************************************************)
EXTENDS Integers, Sequences, FiniteSets, TLC

\* ------------------------------------------------------------ JS numbers
Fin(n) == [fin |-> TRUE, v |-> n]

NaN == [fin |-> FALSE, v |-> 0]

PosInf == [fin |-> FALSE, v |-> 1]

NegInf == [fin |-> FALSE, v |-> -1]

\* "undefined", the value of a parameter the caller does not pass.
Undefined == [fin |-> FALSE, v |-> 2]

Abs(n) == IF n < 0 THEN -n ELSE n

Sign(n) == IF n < 0 THEN -1 ELSE IF n > 0 THEN 1 ELSE 0

Max2(a, b) == IF a >= b THEN a ELSE b

Min2(a, b) == IF a <= b THEN a ELSE b

SetMax(S) == CHOOSE m \in S : \A o \in S : o <= m

SetMin(S) == CHOOSE m \in S : \A o \in S : m <= o

\* floor(a / b) and ceil(a / b) of the exact quotient, b > 0.
FloorDiv(a, b) == a \div b

CeilDiv(a, b) == -((-a) \div b)

\* JavaScript's a % b on integers: the remainder has the sign of the dividend.
JsRem(a, b) == Sign(a) * (Abs(a) % Abs(b))

Range(s) == {s[i] : i \in 1..Len(s)}

\* Array.prototype.splice(index, 1).
RemoveAt(s, i) == SubSeq(s, 1, i - 1) \o SubSeq(s, i + 1, Len(s))

\* ---------------------------------------------------------------- labels
\* String.prototype.toLowerCase / includes work on characters; a label is a
\* TLA+ string and Chars gives its characters.
Chars(label) ==
  CASE label = "" -> <<>>
    [] label = "Flow.40ms" -> <<"F","l","o","w",".","4","0","m","s">>
    [] label = "Press.40ms" -> <<"P","r","e","s","s",".","4","0","m","s">>
    [] label = "MaskPress.2s" -> <<"M","a","s","k","P","r","e","s","s",".","2","s">>
    [] label = "Press.2s" -> <<"P","r","e","s","s",".","2","s">>
    [] label = "SpO2.1s" -> <<"S","p","O","2",".","1","s">>
    [] label = "Pulse.1s" -> <<"P","u","l","s","e",".","1","s">>
    [] label = "Crc16" -> <<"C","r","c","1","6">>
    [] label = "CRC16" -> <<"C","R","C","1","6">>
    [] label = "EDF Annotations" -> <<"E","D","F"," ","A","n","n","o","t","a","t","i","o","n","s">>
    [] label = "Flow" -> <<"F","l","o","w">>
    [] label = "MaskPressure" -> <<"M","a","s","k","P","r","e","s","s","u","r","e">>
    [] label = "InspPressure" -> <<"I","n","s","p","P","r","e","s","s","u","r","e">>
    [] label = "SpO2" -> <<"S","p","O","2">>
    [] label = "Pulse" -> <<"P","u","l","s","e">>
    [] label = "SPO2raw" -> <<"S","P","O","2","r","a","w">>
    [] label = "PulseRate" -> <<"P","u","l","s","e","R","a","t","e">>
    [] label = "Puls" -> <<"P","u","l","s">>
    [] label = "spo2" -> <<"s","p","o","2">>
    [] label = "pulse" -> <<"p","u","l","s","e">>
    [] label = "crc16" -> <<"c","r","c","1","6">>
    [] label = "edf annotations" -> <<"e","d","f"," ","a","n","n","o","t","a","t","i","o","n","s">>
    [] label = "_brp.edf" -> <<"_","b","r","p",".","e","d","f">>
    [] label = ".edf" -> <<".","e","d","f">>
    [] label = "str.edf" -> <<"s","t","r",".","e","d","f">>
    [] label = "STR.edf" -> <<"S","T","R",".","e","d","f">>
    [] label = "Identification.tgt" ->
         <<"I","d","e","n","t","i","f","i","c","a","t","i","o","n",".","t","g","t">>
    [] label = "DATALOG/D1/A_BRP.edf" ->
         <<"D","A","T","A","L","O","G","/","D","1","/","A","_","B","R","P",".","e","d","f">>
    [] label = "DATALOG/D1/A_PLD.edf" ->
         <<"D","A","T","A","L","O","G","/","D","1","/","A","_","P","L","D",".","e","d","f">>
    [] label = "DATALOG/D1/SUB/N_PLD.edf" ->
         <<"D","A","T","A","L","O","G","/","D","1","/","S","U","B","/",
           "N","_","P","L","D",".","e","d","f">>
    [] label = "DATALOG/D2/B_BRP.EDF" ->
         <<"D","A","T","A","L","O","G","/","D","2","/","B","_","B","R","P",".","E","D","F">>
    [] label = "R_BRP.edf" -> <<"R","_","B","R","P",".","e","d","f">>
    [] label = ".spo2" -> <<".","s","p","o","2">>
    [] label = "a.spo2" -> <<"a",".","s","p","o","2">>
    [] label = "B.SPO2" -> <<"B",".","S","P","O","2">>
    [] label = "notes.txt" -> <<"n","o","t","e","s",".","t","x","t">>

LowerChar(c) ==
  CASE c = "A" -> "a" [] c = "B" -> "b" [] c = "C" -> "c" [] c = "D" -> "d"
    [] c = "E" -> "e" [] c = "F" -> "f" [] c = "G" -> "g" [] c = "H" -> "h"
    [] c = "I" -> "i" [] c = "J" -> "j" [] c = "K" -> "k" [] c = "L" -> "l"
    [] c = "M" -> "m" [] c = "N" -> "n" [] c = "O" -> "o" [] c = "P" -> "p"
    [] c = "Q" -> "q" [] c = "R" -> "r" [] c = "S" -> "s" [] c = "T" -> "t"
    [] c = "U" -> "u" [] c = "V" -> "v" [] c = "W" -> "w" [] c = "X" -> "x"
    [] c = "Y" -> "y" [] c = "Z" -> "z"
    [] OTHER -> c

\* label.toLowerCase()
toLowerCase(label) == [i \in 1..Len(Chars(label)) |-> LowerChar(Chars(label)[i])]

\* s.endsWith(suffix) and s.startsWith(prefix) on character sequences.
endsWith(chars, suffix) ==
  /\ Len(suffix) <= Len(chars)
  /\ SubSeq(chars, Len(chars) - Len(suffix) + 1, Len(chars)) = suffix

startsWith(chars, prefix) ==
  /\ Len(prefix) <= Len(chars)
  /\ SubSeq(chars, 1, Len(prefix)) = prefix

\* haystack.includes(needle), both character sequences.
includes(hay, needle) ==
  \E k \in 0..(Len(hay) - Len(needle)) :
    \A j \in 1..Len(needle) : hay[k + j] = needle[j]

\* ------------------------------------------------------- CANONICAL_NAMES
\* The synonym table in Map insertion order.  Aliases that are not ASCII in
\* the source are spelled by their code points.
CANONICAL_NAMES_AliasIsCanonical ==
  << [canonical |-> "Flow", aliases |-> <<"Flow.40ms">>],
     [canonical |-> "MaskPressure", aliases |-> <<"Press.40ms", "MaskPress.2s", "Flow">>],
     [canonical |-> "Pulse", aliases |-> <<"Puls", "Pulse.1s">>],
     [canonical |-> "SpO2", aliases |-> <<"SpO2.1s">>] >>

CANONICAL_NAMES ==
  << [canonical |-> "Flow", aliases |-> <<"Flow.40ms">>],
     [canonical |-> "MaskPressure", aliases |-> <<"Press.40ms", "MaskPress.2s">>],
     [canonical |-> "RespEvent", aliases |-> <<"TrigCycEvt.40ms">>],
     [canonical |-> "InspPressure",
      aliases |-> <<"Press.2s", "IPAP", "S.BL.IPAP", "S.S.IPAP">>],
     [canonical |-> "ExpPressure",
      aliases |-> <<"EprPress.2s", "EPAP", "S.BL.EPAP", "EPRPress.2s", "S.S.EPAP">>],
     [canonical |-> "Leak",
      aliases |-> <<"Leck", "Fuites", "Fuite", "Fuga", "U+6CC4 U+6F0F U+6C14", "Lekk",
                    "L U+00E4 ck", "L U+00C3 U+00A4 ck", "Leak.2s",
                    "S U+0131 z U+0131 nt U+0131">>],
     [canonical |-> "RespRate", aliases |-> <<"AF", "FR", "RespRate.2s">>],
     [canonical |-> "MinuteVent", aliases |-> <<"VM", "MinVent.2s">>],
     [canonical |-> "TidalVolume", aliases |-> <<"VC", "TidVol.2s">>],
     [canonical |-> "InspExpRatio", aliases |-> <<"IERatio.2s">>],
     [canonical |-> "Snore", aliases |-> <<"Snore.2s">>],
     [canonical |-> "FlowLim", aliases |-> <<"FlowLim.2s">>],
     [canonical |-> "InspTime", aliases |-> <<"Ti.2s", "B5ITime.2s">>],
     [canonical |-> "ExpTime", aliases |-> <<"B5ETime.2s">>],
     [canonical |-> "TgtMinuteVent", aliases |-> <<"TgtVent.2s">>],
     [canonical |-> "Pulse", aliases |-> <<"Puls", "Pouls", "Pols", "Pulse.1s", "Nabiz">>],
     [canonical |-> "SpO2", aliases |-> <<"SpO2.1s">>] >>

\* ----------------------------------------------------- canonicalizeLabels
\* The label of one signal: the canonical name of the first table entry one
\* of whose aliases is exactly the label, else the label itself.
CanonicalLabel(label, synonyms) ==
  LET hits == {e \in 1..Len(synonyms) :
                 \E a \in 1..Len(synonyms[e].aliases) : synonyms[e].aliases[a] = label}
  IN IF hits = {} THEN label ELSE synonyms[SetMin(hits)].canonical

canonicalizeLabels(signals, synonyms) ==
  [i \in 1..Len(signals) |->
     [signals[i] EXCEPT !.label = CanonicalLabel(signals[i].label, synonyms)]]

\* ----------------------------------------------------------- filterSignals
\* The indices signals.forEach keeps: those whose lower-cased label is not in
\* the lower-cased disallowed set.
RECURSIVE FilterIdx(_, _, _)
FilterIdx(signals, disallowedSet, i) ==
  IF i > Len(signals) THEN <<>>
  ELSE (IF toLowerCase(signals[i].label) \in disallowedSet THEN <<>> ELSE <<i>>)
       \o FilterIdx(signals, disallowedSet, i + 1)

\* Only disallowedLabels is passed by the callers of this repository.
filterSignals(signals, values, disallowedLabels) ==
  LET disallowedSet == {toLowerCase(disallowedLabels[k]) : k \in 1..Len(disallowedLabels)}
      idx == FilterIdx(signals, disallowedSet, 1)
  IN [filteredSignals |-> [k \in 1..Len(idx) |-> signals[idx[k]]],
      filteredValues |-> [k \in 1..Len(idx) |-> values[idx[k]]]]

\* ----------------------------------------------------- findCommonTimeRange
\* new Date(x).getTime(): a non-finite time value is NaN.
DateOf(x) == IF x.fin THEN x ELSE NaN

\* x * 1000 on a JS number (undefined converts to NaN).
Times1000(x) == IF x.fin THEN Fin(x.v * 1000) ELSE NaN

\* a % b on JS numbers a and b.
JsMod(a, b) ==
  IF ~a.fin \/ ~b.fin THEN (IF a.fin /\ b = PosInf THEN a ELSE NaN)
  ELSE IF b.v = 0 THEN NaN
  ELSE Fin(JsRem(a.v, b.v))

\* a - b on JS numbers.
JsSub(a, b) ==
  IF a.fin /\ b.fin THEN Fin(a.v - b.v)
  ELSE IF a = NaN \/ b = NaN THEN NaN
  ELSE IF ~a.fin /\ ~b.fin THEN (IF a = b THEN NaN ELSE a)
  ELSE IF a.fin THEN (IF b = PosInf THEN NegInf ELSE PosInf)
  ELSE a

\* Math.max(...xs) and Math.min(...xs) of finite numbers; the empty list
\* gives -Infinity and +Infinity.
MathMax(xs) == IF xs = <<>> THEN NegInf ELSE Fin(SetMax(Range(xs)))

MathMin(xs) == IF xs = <<>> THEN PosInf ELSE Fin(SetMin(Range(xs)))

\* The raw end, before alignment: the bug a version without the alignment
\* line would have.
findCommonTimeRange_NoAlign(files, recordDuration) ==
  LET startTimes == [i \in 1..Len(files) |-> files[i].header.startTime]
      endTimes == [i \in 1..Len(files) |-> files[i].header.startTime + files[i].duration]
  IN [start |-> DateOf(MathMax(startTimes)), end |-> DateOf(MathMin(endTimes))]

findCommonTimeRange(files, recordDuration) ==
  LET startTimes == [i \in 1..Len(files) |-> files[i].header.startTime]
      endTimes == [i \in 1..Len(files) |-> files[i].header.startTime + files[i].duration]
      start == MathMax(startTimes)
      end0 == MathMin(endTimes)
      end == JsSub(end0, JsMod(JsSub(end0, start), Times1000(recordDuration)))
  IN [start |-> DateOf(start), end |-> DateOf(end)]

\* ------------------------------------------------------------ mergeSignals
\* Step 1: every signal of every file, in forEach order.
RECURSIVE FileInfos(_, _, _)
FileInfos(file, fileIndex, signalIndex) ==
  IF signalIndex > Len(file.header.signals) THEN <<>>
  ELSE <<[signal |-> file.header.signals[signalIndex],
          index |-> signalIndex, fileIndex |-> fileIndex]>>
       \o FileInfos(file, fileIndex, signalIndex + 1)

RECURSIVE AllInfos(_, _)
AllInfos(files, fileIndex) ==
  IF fileIndex > Len(files) THEN <<>>
  ELSE FileInfos(files[fileIndex], fileIndex, 1) \o AllInfos(files, fileIndex + 1)

\* The keys of labelToSignals in Map insertion order.
RECURSIVE LabelOrder(_, _)
LabelOrder(infos, seen) ==
  IF infos = <<>> THEN <<>>
  ELSE IF Head(infos).signal.label \in seen THEN LabelOrder(Tail(infos), seen)
  ELSE <<Head(infos).signal.label>>
       \o LabelOrder(Tail(infos), seen \cup {Head(infos).signal.label})

\* labelToSignals.get(label)
InfosOf(infos, label) == SelectSeq(infos, LAMBDA x : x.signal.label = label)

\* A sort that puts the lowest samplesPerRecord first.
RECURSIVE SortBySamplesPerRecord_Ascending(_)
SortBySamplesPerRecord_Ascending(signalInfos) ==
  IF signalInfos = <<>> THEN <<>>
  ELSE LET m == SetMin({signalInfos[i].signal.samplesPerRecord : i \in 1..Len(signalInfos)})
           i == SetMin({j \in 1..Len(signalInfos) : signalInfos[j].signal.samplesPerRecord = m})
       IN <<signalInfos[i]>> \o SortBySamplesPerRecord_Ascending(RemoveAt(signalInfos, i))

\* signalInfos.sort((a, b) => b.samplesPerRecord - a.samplesPerRecord): a stable
\* sort, highest samplesPerRecord first.
RECURSIVE SortBySamplesPerRecord(_)
SortBySamplesPerRecord(signalInfos) ==
  IF signalInfos = <<>> THEN <<>>
  ELSE LET m == SetMax({signalInfos[i].signal.samplesPerRecord : i \in 1..Len(signalInfos)})
           i == SetMin({j \in 1..Len(signalInfos) : signalInfos[j].signal.samplesPerRecord = m})
       IN <<signalInfos[i]>> \o SortBySamplesPerRecord(RemoveAt(signalInfos, i))

\* Math.floor / Math.ceil of (t - fileStart) * (samplesPerRecord / recordDurationMs).
\* A zero recordDurationMs makes samplesPerMs infinite (or NaN for 0 / 0).
SampleIndex(t, fileStart, samplesPerRecord, recordDurationMs, roundUp) ==
  IF ~t.fin THEN NaN
  ELSE LET d == t.v - fileStart
       IN IF recordDurationMs = 0
          THEN (IF samplesPerRecord = 0 \/ d = 0 THEN NaN
                ELSE IF Sign(d) * Sign(samplesPerRecord) > 0 THEN PosInf ELSE NegInf)
          ELSE IF roundUp THEN Fin(CeilDiv(d * samplesPerRecord, recordDurationMs))
          ELSE Fin(FloorDiv(d * samplesPerRecord, recordDurationMs))

\* Array.prototype.slice: an index is clamped into 0..length, a negative one
\* counts from the end, NaN is 0.
SliceIndex(x, len) ==
  IF x = NaN THEN 0
  ELSE IF x = PosInf THEN len
  ELSE IF x = NegInf THEN 0
  ELSE IF x.v < 0 THEN Max2(len + x.v, 0)
  ELSE Min2(x.v, len)

slice(values, startSample, endSample) ==
  SubSeq(values, SliceIndex(startSample, Len(values)) + 1, SliceIndex(endSample, Len(values)))

\* Step 2 reading the samples of the file's first channel (values[0])
\* instead of the best signal's channel.
MergedChannel_ValuesOfFirstChannel(start, end, overlappingFiles, label) ==
  LET signalInfos == SortBySamplesPerRecord(InfosOf(AllInfos(overlappingFiles, 1), label))
      best == signalInfos[1]
      file == overlappingFiles[best.fileIndex]
      values == file.values[1]
      fileStart == file.header.startTime
      recordDurationMs == file.header.recordDuration * 1000
      samplesPerRecord == best.signal.samplesPerRecord
      startSample == SampleIndex(start, fileStart, samplesPerRecord, recordDurationMs, FALSE)
      endSample == SampleIndex(end, fileStart, samplesPerRecord, recordDurationMs, TRUE)
  IN [signal |-> best.signal, best |-> best,
      startSample |-> startSample, endSample |-> endSample,
      extractedSamples |-> slice(values, startSample, endSample)]

\* Step 2 for one label: the best signal and its extracted samples.
MergedChannel(start, end, overlappingFiles, label) ==
  LET signalInfos == SortBySamplesPerRecord(InfosOf(AllInfos(overlappingFiles, 1), label))
      best == signalInfos[1]
      file == overlappingFiles[best.fileIndex]
      values == file.values[best.index]
      fileStart == file.header.startTime
      recordDurationMs == file.header.recordDuration * 1000
      samplesPerRecord == best.signal.samplesPerRecord
      startSample == SampleIndex(start, fileStart, samplesPerRecord, recordDurationMs, FALSE)
      endSample == SampleIndex(end, fileStart, samplesPerRecord, recordDurationMs, TRUE)
  IN [signal |-> best.signal, best |-> best,
      startSample |-> startSample, endSample |-> endSample,
      extractedSamples |-> slice(values, startSample, endSample)]

\* a >= b and a <= b between a finite number and a Date time value (false on NaN).
GeqDate(a, t) == t.fin /\ a >= t.v

LeqDate(a, t) == t.fin /\ a <= t.v

\* The window test with an end that is excluded.
InWindow_EndExclusive(file, annotation, start, end) ==
  /\ GeqDate(file.header.startTime + annotation.onset, start)
  /\ end.fin /\ file.header.startTime + annotation.onset < end.v

InWindow(file, annotation, start, end) ==
  /\ GeqDate(file.header.startTime + annotation.onset, start)
  /\ LeqDate(file.header.startTime + annotation.onset, end)

RECURSIVE FileAnnotations(_, _, _, _)
FileAnnotations(file, start, end, k) ==
  IF k > Len(file.annotations) THEN <<>>
  ELSE (IF InWindow(file, file.annotations[k], start, end)
        THEN <<[file.annotations[k] EXCEPT
                  !.onset = file.annotations[k].onset + (file.header.startTime - start.v)]>>
        ELSE <<>>)
       \o FileAnnotations(file, start, end, k + 1)

RECURSIVE MergedAnnotations(_, _, _, _)
MergedAnnotations(files, start, end, fileIndex) ==
  IF fileIndex > Len(files) THEN <<>>
  ELSE FileAnnotations(files[fileIndex], start, end, 1)
       \o MergedAnnotations(files, start, end, fileIndex + 1)

mergeSignals(start, end, overlappingFiles) ==
  LET labels == LabelOrder(AllInfos(overlappingFiles, 1), {})
      ch == [k \in 1..Len(labels) |-> MergedChannel(start, end, overlappingFiles, labels[k])]
  IN [signals |-> [k \in 1..Len(labels) |-> ch[k].signal],
      values |-> [k \in 1..Len(labels) |-> ch[k].extractedSamples],
      annotations |-> MergedAnnotations(overlappingFiles, start, end, 1)]

\* ------------------------------------------------------------- postProcess
\* signals.find(s => s.label.toLowerCase().includes(needle)) as an index,
\* 0 when there is none.
FindSignal(signals, needle) ==
  LET hits == {i \in 1..Len(signals) : includes(toLowerCase(signals[i].label), needle)}
  IN IF hits = {} THEN 0 ELSE SetMin(hits)

\* A validity test that takes the first sample for the whole channel.
hasValidValues_FirstOnly(values) == Len(values) > 0 /\ values[1] > 0

\* values.some(value => value > 0)
hasValidValues(values) == \E k \in 1..Len(values) : values[k] > 0

\* The optional-sensor step removing the descriptor and leaving the samples.
RemoveIfInvalid_DescriptorOnly(file, needle) ==
  LET index == FindSignal(file.header.signals, needle)
  IN IF index # 0 /\ ~hasValidValues(file.values[index])
     THEN [file EXCEPT !.header.signals = RemoveAt(@, index),
                       !.header.signalCount = @ - 1]
     ELSE file

\* One optional-sensor step of postProcess.
RemoveIfInvalid(file, needle) ==
  LET index == FindSignal(file.header.signals, needle)
  IN IF index # 0 /\ ~hasValidValues(file.values[index])
     THEN [file EXCEPT !.header.signals = RemoveAt(@, index),
                       !.values = RemoveAt(@, index),
                       !.header.signalCount = @ - 1]
     ELSE file

postProcess(file) ==
  RemoveIfInvalid(RemoveIfInvalid(file, <<"s", "p", "o", "2">>), <<"p", "u", "l", "s", "e">>)

\* ------------------------------------------------------------------ state
VARIABLES
  session,       \* loadSession: the Session argument {start, end, files}
  onProgress,    \* ResMedLoader call: whether a progress callback is supplied
  lpc,           \* loadSession: "idle", "loading", "done" (returned), "failed" (threw);
                 \*   sessions called directly: "before sessions", "sessions",
                 \*   "returned sessions", "threw sessions"
  fileNo,        \* loadSession: how many files of session.files were read
  tree,          \* loadSession: the interval tree, as the inserted entries in order
  processedFiles,\* loadSession: the progress counter
  progressLog,   \* ResMedLoader call: the values passed to onProgress, in order
  candidates,    \* loadSession: overlappingFiles, as tree.search returned them
  window,        \* loadSession: {start, end} returned by findCommonTimeRange
  edfFile,       \* loadSession: the returned EDFFile
  fn,            \* function calls: which function is applied, "returned" after
  arg,           \* function calls: the arguments
  ret,           \* function calls: the returned value
  appFiles,      \* App: the state "files", as the selected files
  error,         \* App: the state "error" (None for null)
  loading,       \* App: the state "loading"
  progress,      \* App: the state "progress"
  selectedLoader,\* App: the state "selectedLoader" (None for null)
  sessions,      \* App: the state "sessions"
  directory,     \* handleUpload: the Map from relative path to file, in order
  scan,          \* the pending call of the loader: its locals
  apc,           \* App: "idle", "sessions" (awaiting loader.sessions),
                 \*      "loadSession" (awaiting loader.loadSession)
  calls,         \* App: what the handler started last has invoked so far
  oxDirectory,   \* SpO2AssistantLoader.sessions: the directory argument
  oxOnProgress,  \* SpO2AssistantLoader: whether a progress callback is supplied
  oxpc,          \* SpO2AssistantLoader: "idle", "sessions" (awaiting a buffer),
                 \*   "returned sessions", "threw sessions", "loadSession"
                 \*   (awaiting the buffer), "returned loadSession",
                 \*   "threw loadSession"
  oxi,           \* SpO2AssistantLoader.sessions: the loop index i
  oxSessions,    \* SpO2AssistantLoader.sessions: the sessions found so far
  oxProgressLog, \* SpO2AssistantLoader: the values passed to onProgress by the
                 \*   call in progress, in order
  oxSession,     \* SpO2AssistantLoader.loadSession: the session argument
  oxFile         \* SpO2AssistantLoader.loadSession: the returned EDFFile

vars == <<session, onProgress, lpc, fileNo, tree, processedFiles, progressLog,
          candidates, window, edfFile, fn, arg, ret,
          appFiles, error, loading, progress, selectedLoader, sessions,
          directory, scan, apc, calls,
          oxDirectory, oxOnProgress, oxpc, oxi, oxSessions, oxProgressLog,
          oxSession, oxFile>>

oxVars == <<oxDirectory, oxOnProgress, oxpc, oxi, oxSessions, oxProgressLog,
            oxSession, oxFile>>

appVars == <<appFiles, error, loading, progress, selectedLoader, sessions,
             directory, scan, apc, calls>>

loadVars == <<session, onProgress, lpc, fileNo, tree, processedFiles, progressLog,
              candidates, window, edfFile>>

callVars == <<fn, arg, ret>>

None == "none"

\* ----------------------------------------------------------------- inputs
\* Bounds of the inputs.
MaxStartStep == 2

MaxRecords == 2

MaxChannels == 3

\* File start times are multiples of half a record.
StartStepMs == 30 * 1000

Starts == {k * StartStepMs : k \in 0..MaxStartStep}

\* The channel tables of the files of a ResMed session directory, as
\* <<label, samplesPerRecord>> (BRP: high rate, PLD: low rate, SAD: oximetry,
\* EVE: events only, DUP: one signal under two aliases).
Layout(name) ==
  CASE name = "BRP" -> << <<"Flow.40ms", 3>>, <<"Press.40ms", 3>>, <<"Crc16", 1>> >>
    [] name = "PLD" -> << <<"MaskPress.2s", 1>>, <<"Press.2s", 1>> >>
    [] name = "SAD" -> << <<"SpO2.1s", 2>>, <<"Pulse.1s", 2>> >>
    [] name = "EVE" -> << <<"EDF Annotations", 1>> >>
    [] name = "DUP" -> << <<"Press.40ms", 2>>, <<"MaskPress.2s", 2>>, <<"Flow.40ms", 3>> >>

Layouts == {"BRP", "PLD", "SAD", "EVE", "DUP"}

\* The annotations the reader decodes from an EVE file (onset and duration in
\* thousandths of a second).
EveAnnotations ==
  << [onset |-> 30000, duration |-> Undefined, description |-> "Hypopnea"],
     [onset |-> 70000, duration |-> Fin(10000), description |-> "Obstructive Apnea"],
     [onset |-> 5000, duration |-> Fin(10000), description |-> "Arousal"] >>

\* What distinguishes one file from a plain one.
Variants ==
  {"plain", "noRecords", "unknownRecords", "noRecordsDuration30", "duration0", "duration30",
   "discontinuous", "discontinuousGap", "unfitted"}

\* Sample k of channel c of the file at position pos: positive and different
\* for every (pos, c, k); an oximetry channel reads 0 while the sensor takes
\* its first reading, and 0 throughout when it is not fitted.
SampleValue(pos, layout, variant, c, k, n) ==
  IF layout = "SAD" /\ (variant = "unfitted" \/ k < n) THEN 0
  ELSE pos * 100 + c * 10 + k

\* The decoded content of one file, as the EDFReader gives it: readHeader(),
\* readSignal(i), readAnnotations() and getRecordTimestamp(dataRecords - 1).
\* The records of a file that declares record duration 0 carry their own
\* time stamps, one minute apart here.
\* The id of a signal stands for the fields of an EDFSignal the loader never
\* reads (transducer, physical and digital range, ...): it tells the signal
\* objects of a session apart.
RawFile(pos, start, records, layout, variant) ==
  LET dataRecords == CASE variant \in {"noRecords", "noRecordsDuration30"} -> 0
                       [] variant = "unknownRecords" -> -1
                       [] OTHER -> records
      recordDuration == CASE variant = "duration0" -> 0
                          [] variant \in {"duration30", "noRecordsDuration30"} -> 30
                          [] OTHER -> 60
      table == Layout(layout)
      len(c) == IF dataRecords > 0 THEN dataRecords * table[c][2] ELSE 0
  IN [header |-> [startTime |-> start,
                  dataRecords |-> dataRecords,
                  recordDuration |-> recordDuration,
                  reserved |-> IF variant \in {"discontinuous", "discontinuousGap"}
                               THEN "EDF+D" ELSE "",
                  signals |-> [c \in 1..Len(table) |->
                                 [label |-> table[c][1], samplesPerRecord |-> table[c][2],
                                  id |-> pos * 10 + c]]],
      values |-> [c \in 1..Len(table) |->
                    [k \in 1..len(c) |-> SampleValue(pos, layout, variant, c, k, len(c))]],
      annotations |-> IF layout = "EVE" /\ dataRecords > 0 THEN EveAnnotations ELSE <<>>,
      lastRecordTimestamp |-> (dataRecords - 1) * (IF recordDuration = 0 THEN 60
                                                   ELSE recordDuration)
                              + (IF variant = "discontinuousGap" THEN 60 ELSE 0)]

FileChoices(pos) ==
  {RawFile(pos, s, r, l, v) : s \in Starts, r \in 1..MaxRecords, l \in Layouts, v \in Variants}

\* The second file of a two-file session: a plain one-record BRP or PLD file.
PartnerChoices(pos) ==
  {RawFile(pos, s, 1, l, "plain") : s \in Starts, l \in {"BRP", "PLD"}}

\* Three (MaxChain) recordings of the same channel, one after the other.
MaxChain == 3

ChainFile(pos, records) ==
  LET f == RawFile(pos, (pos - 1) * records * 60 * 1000, records, "BRP", "plain")
  IN [f EXCEPT !.header.signals = SubSeq(@, 1, 1), !.values = SubSeq(@, 1, 1)]

\* A file of a later recording kept in the same folder: it starts after the
\* first recording of the folder has ended.
LaterChoices(pos) ==
  {RawFile(pos, (MaxStartStep + 2) * StartStepMs, 1, l, v) :
     l \in {"PLD", "EVE"}, v \in {"plain", "discontinuous"}}

FileLists ==
  {<<>>}
  \cup {<<f, g>> : f \in {RawFile(1, 0, 1, "BRP", "plain")}, g \in LaterChoices(2)}
  \cup {<<f>> : f \in FileChoices(1)}
  \cup {<<f, g>> : f \in FileChoices(1), g \in PartnerChoices(2)}
  \cup {<<f, g>> : f \in PartnerChoices(1), g \in FileChoices(2)}
  \cup {[pos \in 1..n |-> ChainFile(pos, r)] : n \in 2..MaxChain, r \in 1..MaxRecords}

\* The end the Session Discoverer computes for a marker file.
FileEnd(f) == f.header.startTime + (f.lastRecordTimestamp + f.header.recordDuration) * 1000

\* The sessions: the window of the first file with records (the marker
\* file), or the span of all the files with records.
SessionsOf(files) ==
  LET withData == {i \in 1..Len(files) : files[i].header.dataRecords > 0}
      m == SetMin(withData)
  IN IF withData = {} THEN {[start |-> 0, end |-> 60 * 1000, files |-> files]}
     ELSE {[start |-> files[m].header.startTime, end |-> FileEnd(files[m]), files |-> files],
           [start |-> SetMin({files[i].header.startTime : i \in withData}),
            end |-> SetMax({FileEnd(files[i]) : i \in withData}),
            files |-> files]}

\* -------------------------------------------------- ResMedLoader.loadSession
\* const recordDuration = 60
recordDuration == 60

\* The correction without its floor: the duration is subtracted and the
\* result kept even when it lies before the start of the file.
CorrectedOnset_NoFloor(ann) ==
  ann.onset - (IF ann.duration = Undefined THEN 0 ELSE ann.duration.v)

\* Math.max(0, ann.onset - (ann.duration ?? 0))
CorrectedOnset(ann) ==
  Max2(0, ann.onset - (IF ann.duration = Undefined THEN 0 ELSE ann.duration.v))

\* The loop body with the two tests in the other order: the record count is
\* looked at before the record duration.
ProcessFile_RecordCountFirst(raw, sess) ==
  LET header == raw.header
      filtered == filterSignals(header.signals, raw.values, <<"EDF Annotations", "Crc16", "">>)
      signals == canonicalizeLabels(filtered.filteredSignals, CANONICAL_NAMES)
      annotations == [k \in 1..Len(raw.annotations) |->
                        [raw.annotations[k] EXCEPT !.onset = CorrectedOnset(raw.annotations[k])]]
      start == header.startTime
      endOffset == raw.lastRecordTimestamp
      end == IF header.reserved = "EDF+D" THEN sess.end
             ELSE start + (endOffset + header.recordDuration) * 1000
  IN IF header.dataRecords <= 0
     THEN [do |-> "continue"]
     ELSE IF header.recordDuration # recordDuration /\ header.recordDuration # 0
     THEN [do |-> "throw"]
     ELSE [do |-> "insert", low |-> start, high |-> end,
           data |-> [header |-> [header EXCEPT !.signals = signals],
                     values |-> filtered.filteredValues,
                     annotations |-> annotations,
                     duration |-> end - start]]

\* The body of the loop for one file, up to tree.insert: what the file makes
\* the loop do ("throw", "continue" or "insert") and the entry inserted.
ProcessFile(raw, sess) ==
  LET header == raw.header
      filtered == filterSignals(header.signals, raw.values, <<"EDF Annotations", "Crc16", "">>)
      signals == canonicalizeLabels(filtered.filteredSignals, CANONICAL_NAMES)
      annotations == [k \in 1..Len(raw.annotations) |->
                        [raw.annotations[k] EXCEPT !.onset = CorrectedOnset(raw.annotations[k])]]
      start == header.startTime
      endOffset == raw.lastRecordTimestamp
      end == IF header.reserved = "EDF+D" THEN sess.end
             ELSE start + (endOffset + header.recordDuration) * 1000
  IN IF header.recordDuration # recordDuration /\ header.recordDuration # 0
     THEN [do |-> "throw"]
     ELSE IF header.dataRecords <= 0
     THEN [do |-> "continue"]
     ELSE [do |-> "insert", low |-> start, high |-> end,
           data |-> [header |-> [header EXCEPT !.signals = signals],
                     values |-> filtered.filteredValues,
                     annotations |-> annotations,
                     duration |-> end - start]]

\* tree.search(low, high): the entries whose interval meets [low, high].  The
\* order of the result is the tree's own (it depends on the shape of the
\* tree), so every order of the hits is a possible result.
Overlapping(entries, low, high) ==
  {i \in 1..Len(entries) : entries[i].low <= high /\ entries[i].high >= low}

SearchResults(entries, low, high) ==
  LET hits == Overlapping(entries, low, high)
      n == Cardinality(hits)
  IN {[k \in 1..n |-> entries[p[k]].data] :
        p \in {q \in [1..n -> hits] : \A a, b \in 1..n : a # b => q[a] # q[b]}}

\* Math.ceil((end - start) / (recordDuration * 1000)) on Date time values.
DataRecords(start, end) ==
  IF start.fin /\ end.fin THEN Fin(CeilDiv(end.v - start.v, recordDuration * 1000)) ELSE NaN

\* The call findCommonTimeRange(overlappingFiles): the second parameter is not
\* passed.
CommonTimeRangeOf(overlappingFiles) == findCommonTimeRange(overlappingFiles, Undefined)

\* The statements after the loop, for one result of tree.search.
Reconcile(overlappingFiles) ==
  LET range == CommonTimeRangeOf(overlappingFiles)
      merged == mergeSignals(range.start, range.end, overlappingFiles)
  IN postProcess([header |-> [startTime |-> range.start,
                              dataRecords |-> DataRecords(range.start, range.end),
                              recordDuration |-> recordDuration,
                              signalCount |-> Len(merged.signals),
                              signals |-> merged.signals],
                  values |-> merged.values,
                  annotations |-> merged.annotations])

\* The loop has read every file: search, reconcile and return.
Finish(entries) ==
  \E overlappingFiles \in SearchResults(entries, session.start, session.end) :
    /\ candidates' = overlappingFiles
    /\ window' = CommonTimeRangeOf(overlappingFiles)
    /\ edfFile' = Reconcile(overlappingFiles)
    /\ lpc' = "done"

\* After one file: the next await, or the end of the loop.
Continue(entries) ==
  IF fileNo + 1 = Len(session.files) THEN Finish(entries)
  ELSE /\ lpc' = "loading"
       /\ UNCHANGED <<candidates, window, edfFile>>

\* loadSession is called: everything up to the first await.
LoadSessionStart ==
  /\ lpc = "idle"
  /\ session.files # <<>>
  /\ lpc' = "loading"
  /\ UNCHANGED <<session, onProgress, fileNo, tree, processedFiles, progressLog,
                 candidates, window, edfFile>>
  /\ UNCHANGED <<callVars, appVars, oxVars>>

\* loadSession of a session without files never awaits.
LoadSessionNoFiles ==
  /\ lpc = "idle"
  /\ session.files = <<>>
  /\ Finish(tree)
  /\ UNCHANGED <<session, onProgress, fileNo, tree, processedFiles, progressLog>>
  /\ UNCHANGED <<callVars, appVars, oxVars>>

\* The file's record duration is neither 60 nor 0: loadSession throws.
FileRejected ==
  /\ lpc = "loading"
  /\ ProcessFile(session.files[fileNo + 1], session).do = "throw"
  /\ lpc' = "failed"
  /\ fileNo' = fileNo + 1
  /\ UNCHANGED <<session, onProgress, tree, processedFiles, progressLog,
                 candidates, window, edfFile>>
  /\ UNCHANGED <<callVars, appVars, oxVars>>

\* The file has no records: continue.
FileSkipped ==
  /\ lpc = "loading"
  /\ ProcessFile(session.files[fileNo + 1], session).do = "continue"
  /\ fileNo' = fileNo + 1
  /\ Continue(tree)
  /\ UNCHANGED <<session, onProgress, tree, processedFiles, progressLog>>
  /\ UNCHANGED <<callVars, appVars, oxVars>>

\* The percentage of the files counted from one: the file in hand is counted
\* twice.
Percent_CountsFromOne(done, size) == (200 * (done + 1) + size) \div (2 * size)

\* Math.round((processedFiles / size) * 100) for 0 <= processedFiles <= size.
Percent(done, size) == (200 * done + size) \div (2 * size)

\* The loop body with tree.insert inside the block that reports the progress:
\* the file is indexed only when a callback is supplied.
FileInserted_InsertsWhenReporting ==
  /\ lpc = "loading"
  /\ LET r == ProcessFile(session.files[fileNo + 1], session)
         inserted == IF onProgress
                     THEN Append(tree, [low |-> r.low, high |-> r.high, data |-> r.data])
                     ELSE tree
     IN /\ r.do = "insert"
        /\ tree' = inserted
        /\ Continue(inserted)
  /\ fileNo' = fileNo + 1
  /\ IF onProgress
     THEN /\ processedFiles' = processedFiles + 1
          /\ progressLog' = Append(progressLog,
                                   Percent(processedFiles + 1, Len(session.files)))
     ELSE UNCHANGED <<processedFiles, progressLog>>
  /\ UNCHANGED <<session, onProgress>>
  /\ UNCHANGED <<callVars, appVars, oxVars>>

\* The file is inserted into the tree and the progress is reported.
FileInserted ==
  /\ lpc = "loading"
  /\ LET r == ProcessFile(session.files[fileNo + 1], session)
     IN /\ r.do = "insert"
        /\ tree' = Append(tree, [low |-> r.low, high |-> r.high, data |-> r.data])
        /\ Continue(Append(tree, [low |-> r.low, high |-> r.high, data |-> r.data]))
  /\ fileNo' = fileNo + 1
  /\ IF onProgress
     THEN /\ processedFiles' = processedFiles + 1
          /\ progressLog' = Append(progressLog,
                                   Percent(processedFiles + 1, Len(session.files)))
     ELSE UNCHANGED <<processedFiles, progressLog>>
  /\ UNCHANGED <<session, onProgress>>
  /\ UNCHANGED <<callVars, appVars, oxVars>>

LoadInit ==
  /\ session \in UNION {SessionsOf(files) : files \in FileLists}
  /\ onProgress \in BOOLEAN
  /\ lpc = "idle"
  /\ fileNo = 0
  /\ tree = <<>>
  /\ processedFiles = 0
  /\ progressLog = <<>>
  /\ candidates = None
  /\ window = None
  /\ edfFile = None

\* The SpO2 Assistant loader is not in use.
OxUnused ==
  /\ oxDirectory = <<>>
  /\ oxOnProgress = FALSE
  /\ oxpc = "unused"
  /\ oxi = 0
  /\ oxSessions = <<>>
  /\ oxProgressLog = <<>>
  /\ oxSession = None
  /\ oxFile = None

\* The App before anything is selected (the useState initial values).
AppInit ==
  /\ appFiles = <<>>
  /\ error = None
  /\ loading = FALSE
  /\ progress = 0
  /\ selectedLoader = None
  /\ sessions = <<>>
  /\ directory = <<>>
  /\ scan = None
  /\ apc = "idle"
  /\ calls = <<>>

Init ==
  /\ LoadInit
  /\ fn = None /\ arg = None /\ ret = None
  /\ AppInit
  /\ OxUnused

Next ==
  \/ LoadSessionStart
  \/ LoadSessionNoFiles
  \/ FileRejected
  \/ FileSkipped
  \/ FileInserted

Spec == Init /\ [][Next]_vars

\* ------------------------------------------------- the functions, one by one
\* The File Records loadSession builds from the files at position pos, for a
\* session that ends at sessionEnd.
FileRecords(pos, layouts, variants, sessionEnd) ==
  {ProcessFile(RawFile(pos, s, r, l, v), [end |-> sessionEnd]).data :
     <<s, r, l, v>> \in
       {x \in Starts \X (1..MaxRecords) \X layouts \X variants :
          ProcessFile(RawFile(pos, x[1], x[2], x[3], x[4]), [end |-> sessionEnd]).do = "insert"}}

AcceptedVariants == {"plain", "duration0", "discontinuous", "discontinuousGap", "unfitted"}

\* Arguments of findCommonTimeRange: up to two File Records and a record
\* duration in seconds.
RecordDurations == {Fin(1), Fin(30), Fin(recordDuration), Fin(0), Undefined}

SpanRecords(pos) == FileRecords(pos, {"EVE"}, AcceptedVariants, 3 * StartStepMs)

FindCommonTimeRangeArgs ==
  {[files |-> fs, recordDuration |-> rd] :
     fs \in {<<>>} \cup {<<f>> : f \in SpanRecords(1)}
            \cup {<<f, g>> : f \in SpanRecords(1), g \in SpanRecords(2)},
     rd \in RecordDurations}

\* Arguments of mergeSignals: a window on the grid of start times (its end may
\* be an Invalid Date) and one or two File Records.
Windows ==
  {[start |-> Fin(a * StartStepMs), end |-> Fin(b * StartStepMs)] :
     <<a, b>> \in {<<0, 2>>, <<0, 3>>, <<1, 2>>, <<1, 3>>, <<2, 4>>, <<2, 1>>}}
  \cup {[start |-> Fin(StartStepMs), end |-> NaN]}

PartnerRecords(pos) == FileRecords(pos, {"BRP", "PLD"}, {"plain"}, 3 * StartStepMs)

MergeRecords(pos) == FileRecords(pos, Layouts, AcceptedVariants, 3 * StartStepMs)

MergeSignalsArgs ==
  {[start |-> w.start, end |-> w.end, overlappingFiles |-> fs] :
     w \in Windows,
     fs \in {<<>>} \cup {<<f>> : f \in MergeRecords(1)}
            \cup {<<f, g>> : f \in MergeRecords(1), g \in PartnerRecords(2)}
            \cup {<<f, g>> : f \in PartnerRecords(1), g \in PartnerRecords(2)}}

\* Arguments of postProcess: a file of up to MaxChannels channels.
SensorLabels == {"SpO2", "Pulse", "Flow", "SPO2raw"}

SamplePatterns == {<<0, 0, 0>>, <<0, 0, 0, 5>>, <<-1>>}

RECURSIVE ChannelLists(_)
ChannelLists(n) ==
  IF n = 0 THEN {<<>>}
  ELSE ChannelLists(n - 1)
       \cup {Append(cs, [label |-> l, values |-> v]) :
               cs \in {c \in ChannelLists(n - 1) : Len(c) = n - 1},
               l \in SensorLabels, v \in SamplePatterns}

FileOf(channels) ==
  [header |-> [startTime |-> Fin(0), dataRecords |-> Fin(1), recordDuration |-> recordDuration,
               signalCount |-> Len(channels),
               signals |-> [k \in 1..Len(channels) |->
                              [label |-> channels[k].label, samplesPerRecord |-> 3, id |-> k]]],
   values |-> [k \in 1..Len(channels) |-> channels[k].values],
   annotations |-> <<>>]

PostProcessArgs == {FileOf(cs) : cs \in ChannelLists(MaxChannels)}

\* Arguments of canonicalizeLabels: every name of the synonym table, alone, and
\* the pairs of a few labels.
TableLabels ==
  UNION {{CANONICAL_NAMES[e].canonical} \cup Range(CANONICAL_NAMES[e].aliases) :
           e \in 1..Len(CANONICAL_NAMES)}

CanonicalizeLabelsArgs ==
  {<<[label |-> l, samplesPerRecord |-> 3, id |-> 1]>> : l \in TableLabels \cup {"Crc16", ""}}
  \cup {<<[label |-> l, samplesPerRecord |-> 3, id |-> 1],
          [label |-> m, samplesPerRecord |-> 1, id |-> 2]>> :
          l \in {"Flow", "Flow.40ms", "Press.40ms", "MaskPress.2s", "MaskPressure", "Puls"},
          m \in {"Flow", "Flow.40ms", "Press.40ms", "MaskPress.2s", "MaskPressure", "Puls"}}

CallFindCommonTimeRange ==
  /\ fn = "findCommonTimeRange"
  /\ ret' = findCommonTimeRange(arg.files, arg.recordDuration)
  /\ fn' = "returned findCommonTimeRange"
  /\ UNCHANGED arg
  /\ UNCHANGED <<loadVars, appVars, oxVars>>

CallMergeSignals ==
  /\ fn = "mergeSignals"
  /\ ret' = mergeSignals(arg.start, arg.end, arg.overlappingFiles)
  /\ fn' = "returned mergeSignals"
  /\ UNCHANGED arg
  /\ UNCHANGED <<loadVars, appVars, oxVars>>

CallPostProcess ==
  /\ fn = "postProcess"
  /\ ret' = postProcess(arg)
  /\ fn' = "returned postProcess"
  /\ UNCHANGED arg
  /\ UNCHANGED <<loadVars, appVars, oxVars>>

\* canonicalizeLabels, and canonicalizeLabels of its result.
CallCanonicalizeLabels ==
  /\ fn = "canonicalizeLabels"
  /\ ret' = [once |-> canonicalizeLabels(arg, CANONICAL_NAMES),
             twice |-> canonicalizeLabels(canonicalizeLabels(arg, CANONICAL_NAMES),
                                          CANONICAL_NAMES)]
  /\ fn' = "returned canonicalizeLabels"
  /\ UNCHANGED arg
  /\ UNCHANGED <<loadVars, appVars, oxVars>>

CallInit ==
  /\ \/ fn = "findCommonTimeRange" /\ arg \in FindCommonTimeRangeArgs
     \/ fn = "mergeSignals" /\ arg \in MergeSignalsArgs
     \/ fn = "postProcess" /\ arg \in PostProcessArgs
     \/ fn = "canonicalizeLabels" /\ arg \in CanonicalizeLabelsArgs
  /\ ret = None
  /\ session = [start |-> 0, end |-> 0, files |-> <<>>]
  /\ onProgress = FALSE
  /\ lpc = "unused"
  /\ fileNo = 0
  /\ tree = <<>>
  /\ processedFiles = 0
  /\ progressLog = <<>>
  /\ candidates = None
  /\ window = None
  /\ edfFile = None
  /\ AppInit
  /\ OxUnused

CallNext ==
  \/ CallFindCommonTimeRange
  \/ CallMergeSignals
  \/ CallPostProcess
  \/ CallCanonicalizeLabels

CallSpec == CallInit /\ [][CallNext]_vars

\* ------------------------------------------------------------------- App
\* The files a user can select: a card folder "SD" that holds some of these
\* files, in this order.  An EDF file is described by what EDFReader reads
\* from it: readable is FALSE when readHeader throws.
Card == <<"S", "D", "/">>

Edf(readable, dataRecords, startTime) ==
  [readable |-> readable, dataRecords |-> dataRecords, startTime |-> startTime,
   recordDuration |-> recordDuration, endOffset |-> (dataRecords - 1) * recordDuration]

SelectedFile(path, file) == [webkitRelativePath |-> Card \o Chars(path), file |-> file]

Optional(S) == {<<>>} \cup {<<x>> : x \in S}

Selections ==
  {a \o b \o c \o d \o e \o f :
     a \in Optional({SelectedFile("STR.edf", Edf(TRUE, 1, 0)),
                     SelectedFile("Identification.tgt", Edf(FALSE, 0, 0))}),
     b \in Optional({SelectedFile("DATALOG/D1/A_BRP.edf", Edf(TRUE, 1, 60000)),
                     SelectedFile("DATALOG/D1/A_BRP.edf", Edf(TRUE, 0, 60000)),
                     SelectedFile("DATALOG/D1/A_BRP.edf", Edf(FALSE, 0, 0))}),
     c \in Optional({SelectedFile("DATALOG/D1/A_PLD.edf", Edf(TRUE, 1, 60000))}),
     d \in Optional({SelectedFile("DATALOG/D1/SUB/N_PLD.edf", Edf(TRUE, 1, 60000))}),
     e \in Optional({SelectedFile("DATALOG/D2/B_BRP.EDF", Edf(TRUE, 2, 120000)),
                     SelectedFile("DATALOG/D2/B_BRP.EDF", Edf(TRUE, -1, 120000))}),
     f \in Optional({SelectedFile("R_BRP.edf", Edf(TRUE, 1, 0))})}

\* The index of the first x in chars from position i on, 0 when there is none.
RECURSIVE IndexOf(_, _, _)
IndexOf(chars, x, i) ==
  IF i > Len(chars) THEN 0
  ELSE IF chars[i] = x THEN i
  ELSE IndexOf(chars, x, i + 1)

\* The index of the last x in chars at or before position i, 0 when there is none.
RECURSIVE LastIndexOf(_, _, _)
LastIndexOf(chars, x, i) ==
  IF i = 0 THEN 0
  ELSE IF chars[i] = x THEN i
  ELSE LastIndexOf(chars, x, i - 1)

\* webkitRelativePath.split("/").slice(1).join("/")
RelativePath(chars) ==
  LET i == IndexOf(chars, "/", 1)
  IN IF i = 0 THEN <<>> ELSE SubSeq(chars, i + 1, Len(chars))

\* path.split("/").slice(0, -1).join("/")
DirPath(chars) ==
  LET i == LastIndexOf(chars, "/", Len(chars))
  IN IF i = 0 THEN <<>> ELSE SubSeq(chars, 1, i - 1)

Lower(chars) == [i \in 1..Len(chars) |-> LowerChar(chars[i])]

\* map.set(key, value): a key already present keeps its place.
MapSet(map, key, value) ==
  IF \E i \in 1..Len(map) : map[i].path = key
  THEN [i \in 1..Len(map) |-> IF map[i].path = key
                              THEN [path |-> key, file |-> value] ELSE map[i]]
  ELSE Append(map, [path |-> key, file |-> value])

\* The directory handleUpload builds from the selected files.
RECURSIVE DirectoryOf(_, _)
DirectoryOf(selectedFiles, n) ==
  IF n = 0 THEN <<>>
  ELSE MapSet(DirectoryOf(selectedFiles, n - 1),
              RelativePath(selectedFiles[n].webkitRelativePath),
              selectedFiles[n].file)

\* A JavaScript value is truthy unless it is false, null, undefined, 0, NaN or "":
\* a Promise is an object, whatever it resolves to.
Promise(value) == [type |-> "promise", value |-> value]

Truthy(x) == IF x.type = "boolean" THEN x.value ELSE x.type = "promise"

\* ResMedLoader.validateDirectory: an async method, so it returns a Promise.
validateDirectory(loader, dir) ==
  Promise([type |-> "boolean",
           value |-> \E i \in 1..Len(dir) : Lower(dir[i].path) = Chars("str.edf")])

loaders == <<"ResMedLoader">>

\* loaders.find((loader) => loader.validateDirectory(directory)), None for
\* undefined.
FindLoader(dir) ==
  LET hits == {i \in 1..Len(loaders) : Truthy(validateDirectory(loaders[i], dir))}
  IN IF hits = {} THEN None ELSE loaders[SetMin(hits)]

NoLoaderError == "Could not find a compatible CPAP loader for the selected directory."

NoSessionsError == "No valid sessions found in the selected directory."

MergeError == "An error occurred during EDF merge and download."

HeaderError == "EDFReader.readHeader threw"

\* ResMedLoader.sessions: the entries whose path ends with _brp.edf.
RECURSIVE SelectPaths(_, _, _)
SelectPaths(dir, keep, i) ==
  IF i > Len(dir) THEN <<>>
  ELSE (IF i \in keep THEN <<dir[i]>> ELSE <<>>) \o SelectPaths(dir, keep, i + 1)

SessionFiles(dir) ==
  SelectPaths(dir, {i \in 1..Len(dir) : endsWith(Lower(dir[i].path), Chars("_brp.edf"))}, 1)

\* ResMedLoader.sessions: the files of the session of the marker file at path.
SiblingFiles(dir, path) ==
  LET dirPath == DirPath(path)
      kept == SelectPaths(dir, {i \in 1..Len(dir) :
                                  /\ startsWith(dir[i].path, dirPath \o <<"/">>)
                                  /\ endsWith(Lower(dir[i].path), Chars(".edf"))}, 1)
  IN [i \in 1..Len(kept) |->
        [path |-> SubSeq(kept[i].path, Len(dirPath) + 2, Len(kept[i].path)),
         file |-> kept[i].file]]

\* ResMedLoader.sessions: the session of one marker file.
SessionOf(dir, entry) ==
  [start |-> entry.file.startTime,
   end |-> entry.file.startTime
           + (entry.file.endOffset + entry.file.recordDuration) * 1000,
   files |-> SiblingFiles(dir, entry.path)]

\* foundSessions.sort((a, b) => b.start.getTime() - a.start.getTime()): a stable
\* sort, latest start first.
RECURSIVE InsertByStart(_, _)
InsertByStart(sorted, s) ==
  IF sorted = <<>> THEN <<s>>
  ELSE IF sorted[Len(sorted)].start >= s.start THEN Append(sorted, s)
  ELSE Append(InsertByStart(SubSeq(sorted, 1, Len(sorted) - 1), s), sorted[Len(sorted)])

RECURSIVE SortByStartDescending(_, _)
SortByStartDescending(found, n) ==
  IF n = 0 THEN <<>>
  ELSE InsertByStart(SortByStartDescending(found, n - 1), found[n])

\* The catch block without the finally block: the error is shown and loading
\* stays true.
UploadFails_LoadingStays(message) ==
  /\ error' = message
  /\ appFiles' = <<>>
  /\ loading' = loading
  /\ apc' = "idle"
  /\ scan' = None

\* handleUpload: catch and finally.
UploadFails(message) ==
  /\ error' = message
  /\ appFiles' = <<>>
  /\ loading' = FALSE
  /\ apc' = "idle"
  /\ scan' = None

\* handleUpload: what follows "await loader.sessions(...)".
UploadSettles(foundSessions) ==
  IF Len(foundSessions) = 0
  THEN UploadFails(NoSessionsError) /\ sessions' = <<>>
  ELSE /\ sessions' = SortByStartDescending(foundSessions, Len(foundSessions))
       /\ UNCHANGED <<appFiles, error>>
       /\ loading' = FALSE
       /\ apc' = "idle"
       /\ scan' = None

\* handleUpload, from the change event of the folder picker up to its first
\* await.  The picker is rendered when nothing is loading and files is empty.
\* loader.sessions awaits only when there is a marker file to read, so without
\* one handleUpload runs to its end.
HandleUpload ==
  /\ apc = "idle"
  /\ ~loading
  /\ Len(appFiles) = 0
  /\ \E selectedFiles \in Selections :
       LET dir == DirectoryOf(selectedFiles, Len(selectedFiles))
           loader == FindLoader(dir)
       IN /\ directory' = dir
          /\ progress' = 0
          /\ IF loader = None
             THEN /\ UploadFails(NoLoaderError)
                  /\ sessions' = <<>>
                  /\ calls' = <<>>
                  /\ UNCHANGED selectedLoader
             ELSE /\ selectedLoader' = loader
                  /\ calls' = <<"sessions">>
                  /\ IF SessionFiles(dir) = <<>>
                     THEN UploadSettles(<<>>)
                     ELSE /\ appFiles' = selectedFiles
                          /\ error' = None
                          /\ sessions' = <<>>
                          /\ loading' = TRUE
                          /\ apc' = "sessions"
                          /\ scan' = [sessionFiles |-> SessionFiles(dir), i |-> 0,
                                      sessions |-> <<>>, processedFiles |-> 0]
  /\ UNCHANGED <<loadVars, callVars, oxVars>>

\* loader.sessions after "await file.arrayBuffer()": one turn of its loop, and,
\* after the last marker file, the rest of handleUpload.
ScanMarkerFile ==
  /\ apc = "sessions"
  /\ LET entry == scan.sessionFiles[scan.i + 1]
         last == scan.i + 1 = Len(scan.sessionFiles)
         pushed == Append(scan.sessions, SessionOf(directory, entry))
     IN IF ~entry.file.readable
        THEN /\ UploadFails(HeaderError)
             /\ UNCHANGED <<sessions, progress>>
        ELSE IF entry.file.dataRecords <= 0
        THEN /\ UNCHANGED progress
             /\ IF last THEN UploadSettles(scan.sessions)
                ELSE /\ scan' = [scan EXCEPT !.i = @ + 1]
                     /\ UNCHANGED <<appFiles, error, loading, sessions, apc>>
        ELSE /\ progress' = Percent(scan.processedFiles + 1, Len(scan.sessionFiles))
             /\ IF last THEN UploadSettles(pushed)
                ELSE /\ scan' = [scan EXCEPT !.i = @ + 1, !.sessions = pushed,
                                             !.processedFiles = @ + 1]
                     /\ UNCHANGED <<appFiles, error, loading, sessions, apc>>
  /\ UNCHANGED <<selectedLoader, directory, calls>>
  /\ UNCHANGED <<loadVars, callVars, oxVars>>

\* handleProcessSession: catch and finally.
ProcessFails ==
  /\ error' = MergeError
  /\ loading' = FALSE
  /\ apc' = "idle"
  /\ scan' = None

\* handleProcessSession: what follows "await selectedLoader?.loadSession(...)".
\* EDFWriter.write either returns the bytes, which are downloaded, or throws.
ProcessSettles ==
  \/ /\ calls' = Append(calls, "download")
     /\ error' = None
     /\ loading' = FALSE
     /\ apc' = "idle"
     /\ scan' = None
  \/ /\ ProcessFails
     /\ UNCHANGED calls

\* handleProcessSession, from the click on a listed session up to its first
\* await.  The list is rendered when nothing is loading and sessions is not
\* empty.  loadSession awaits only when the session has a file to read.
HandleProcessSession ==
  /\ apc = "idle"
  /\ ~loading
  /\ Len(sessions) > 0
  /\ \E k \in 1..Len(sessions) :
       /\ progress' = 0
       /\ IF selectedLoader = None
          THEN ProcessFails /\ calls' = <<>>
          ELSE IF Len(sessions[k].files) = 0
          THEN \/ /\ calls' = <<"loadSession", "download">>
                  /\ error' = None
                  /\ loading' = FALSE
                  /\ UNCHANGED <<apc, scan>>
               \/ /\ ProcessFails
                  /\ calls' = <<"loadSession">>
          ELSE /\ error' = None
               /\ loading' = TRUE
               /\ apc' = "loadSession"
               /\ scan' = [session |-> sessions[k], i |-> 0, processedFiles |-> 0]
               /\ calls' = <<"loadSession">>
  /\ UNCHANGED <<appFiles, selectedLoader, sessions, directory>>
  /\ UNCHANGED <<loadVars, callVars, oxVars>>

\* loader.loadSession after "await file.arrayBuffer()": one turn of its loop,
\* and, after the last file, the rest of handleProcessSession.
LoadSessionFile ==
  /\ apc = "loadSession"
  /\ LET entry == scan.session.files[scan.i + 1]
         last == scan.i + 1 = Len(scan.session.files)
     IN IF ~entry.file.readable \/ entry.file.recordDuration \notin {0, recordDuration}
        THEN ProcessFails /\ UNCHANGED <<progress, calls>>
        ELSE IF entry.file.dataRecords <= 0
        THEN /\ UNCHANGED progress
             /\ IF last THEN ProcessSettles
                ELSE /\ scan' = [scan EXCEPT !.i = @ + 1]
                     /\ UNCHANGED <<error, loading, apc, calls>>
        ELSE /\ progress' = Percent(scan.processedFiles + 1, Len(scan.session.files))
             /\ IF last THEN ProcessSettles
                ELSE /\ scan' = [scan EXCEPT !.i = @ + 1, !.processedFiles = @ + 1]
                     /\ UNCHANGED <<error, loading, apc, calls>>
  /\ UNCHANGED <<appFiles, selectedLoader, sessions, directory>>
  /\ UNCHANGED <<loadVars, callVars, oxVars>>

AppNext ==
  \/ HandleUpload
  \/ ScanMarkerFile
  \/ HandleProcessSession
  \/ LoadSessionFile

\* The App alone: no session is being loaded outside it.
AppSpecInit ==
  /\ AppInit
  /\ OxUnused
  /\ fn = None /\ arg = None /\ ret = None
  /\ session = [start |-> 0, end |-> 0, files |-> <<>>]
  /\ onProgress = FALSE
  /\ lpc = "unused"
  /\ fileNo = 0
  /\ tree = <<>>
  /\ processedFiles = 0
  /\ progressLog = <<>>
  /\ candidates = None
  /\ window = None
  /\ edfFile = None

AppSpec == AppSpecInit /\ [][AppNext]_vars

\* ---------------------------------------------------- SpO2AssistantLoader
\* A file is its bytes: buffer[o + 1] is the byte at offset o.  Instants of
\* this loader are milliseconds since the local midnight of 13 October 2024.

\* view.getUint8(offset): the offset is truncated to an integer (offsets are
\* given as a numerator over den).
getUint8(buffer, offsetN, den) == buffer[FloorDiv(offsetN, den) + 1]

\* view.getUint16(offset, true)
getUint16(buffer, offset) == buffer[offset + 1] + 256 * buffer[offset + 2]

\* view.getUint32(offset, true)
getUint32(buffer, offset) ==
  buffer[offset + 1] + 256 * buffer[offset + 2] + 65536 * buffer[offset + 3]
    + 16777216 * buffer[offset + 4]

\* new Date(year, month - 1, day, hour, minute, second): an Invalid Date beyond
\* the year 275760; fields past their range carry over.
NewDate(year, month, day, hour, minute, second) ==
  IF year > 275760 THEN NaN
  ELSE Fin((((day - 13) * 24 + hour) * 60 + minute) * 60 * 1000 + second * 1000)

\* parseHeader: a DataView read outside the buffer throws a RangeError.
parseHeader(buffer) ==
  IF Len(buffer) < 2 THEN [type |-> "RangeError"]
  ELSE LET headerOffset == getUint16(buffer, 0)
       IN IF headerOffset + 228 > Len(buffer) THEN [type |-> "null"]
          ELSE [type |-> "header",
                start |-> NewDate(getUint32(buffer, headerOffset + 200),
                                  getUint32(buffer, headerOffset + 204),
                                  getUint32(buffer, headerOffset + 208),
                                  getUint32(buffer, headerOffset + 212),
                                  getUint32(buffer, headerOffset + 216),
                                  getUint32(buffer, headerOffset + 220)),
                samples |-> getUint32(buffer, headerOffset + 224),
                headerOffset |-> headerOffset]

\* start.getTime() + samples * 1000
OxEnd(start, samples) == IF start.fin THEN Fin(start.v + samples * 1000) ELSE NaN

\* Math.round(((i + 1) * 100) / n) for n > 0.
OxPercent(i, n) == (200 * (i + 1) + n) \div (2 * n)

\* The loop with a normalisation that fires on either byte of the pair.
RECURSIVE ReadRecords_EitherByte(_, _, _, _, _)
ReadRecords_EitherByte(buffer, samples, payload, i, cursorN) ==
  IF i >= samples THEN <<>>
  ELSE LET fileSize == Len(buffer)
           at == IF payload > 2 * samples THEN cursorN + (payload - 2 * samples)
                 ELSE cursorN
       IN IF at + 2 * samples > fileSize * samples THEN <<>>
          ELSE LET spo2 == getUint8(buffer, at, samples)
                   pulse == getUint8(buffer, at + samples, samples)
               IN << (IF spo2 = 127 \/ pulse = 255
                      THEN [spo2 |-> 0, pulse |-> 0, i |-> i]
                      ELSE [spo2 |-> spo2, pulse |-> pulse, i |-> i]) >>
                  \o ReadRecords_EitherByte(buffer, samples, payload, i + 1, at + 2 * samples)

\* The loop over the records, from record i on, with the cursor as the
\* numerator cursorN over samples (bytesPerRecord = payload / samples is not
\* always an integer).
RECURSIVE ReadRecords(_, _, _, _, _)
ReadRecords(buffer, samples, payload, i, cursorN) ==
  IF i >= samples THEN <<>>
  ELSE LET fileSize == Len(buffer)
           at == IF payload > 2 * samples THEN cursorN + (payload - 2 * samples)
                 ELSE cursorN
       IN IF at + 2 * samples > fileSize * samples THEN <<>>
          ELSE LET spo2 == getUint8(buffer, at, samples)
                   pulse == getUint8(buffer, at + samples, samples)
               IN << (IF spo2 = 127 /\ pulse = 255
                      THEN [spo2 |-> 0, pulse |-> 0, i |-> i]
                      ELSE [spo2 |-> spo2, pulse |-> pulse, i |-> i]) >>
                  \o ReadRecords(buffer, samples, payload, i + 1, at + 2 * samples)

\* The channel table of the returned file.
OxSignals ==
  << [label |-> "SpO2", samplesPerRecord |-> 30],
     [label |-> "Pulse", samplesPerRecord |-> 30] >>

\* loadSession after its await: the thrown error or the returned file, and
\* the progress values.
OxLoad(buffer, withProgress) ==
  LET headerInfo == parseHeader(buffer)
  IN IF headerInfo.type = "RangeError" THEN [type |-> "throw", error |-> "RangeError"]
     ELSE IF headerInfo.type = "null"
     THEN [type |-> "throw", error |-> "Invalid SpO2 file header"]
     ELSE LET samples == headerInfo.samples
              cursor == headerInfo.headerOffset + 228
              read == ReadRecords(buffer, samples, Len(buffer) - cursor, 0, cursor * samples)
          IN [type |-> "return",
              file |-> [header |-> [startTime |-> headerInfo.start,
                                    dataRecords |-> samples \div 30,
                                    recordDuration |-> 30,
                                    signalCount |-> 2,
                                    signals |-> OxSignals],
                        values |-> << [k \in 1..Len(read) |-> read[k].spo2],
                                      [k \in 1..Len(read) |-> read[k].pulse] >>,
                        annotations |-> <<>>],
              progress |-> IF withProgress
                           THEN SelectSeq([k \in 1..Len(read) |->
                                             IF read[k].i % 500 = 0
                                             THEN OxPercent(read[k].i, samples) ELSE -1],
                                          LAMBDA x : x >= 0)
                           ELSE <<>>]

\* The files: a header block at offset h (the pointer at offset 0 is h), the
\* date and the sample count at h + 200 .. h + 227, then the payload.
MaxOxSamples == 2

MaxOxPayload == 8

\* Byte k (0..3) of the little-endian 32-bit value.
Uint32Byte(value, k) ==
  CASE k = 0 -> value % 256
    [] k = 1 -> (value \div 256) % 256
    [] k = 2 -> (value \div 65536) % 256
    [] k = 3 -> (value \div 16777216) % 256

OxBuffer(h, date, samples, payload) ==
  LET fields == date \o <<samples>>
  IN [i \in 1..(h + 228 + Len(payload)) |->
        LET o == i - 1
        IN IF o >= h + 228 THEN payload[o - (h + 228) + 1]
           ELSE IF o >= h + 200
           THEN Uint32Byte(fields[((o - h - 200) \div 4) + 1], (o - h - 200) % 4)
           ELSE IF o = 0 THEN h % 256
           ELSE IF o = 1 THEN h \div 256
           ELSE 0]

\* Payload bytes: readings, the pair (0x7F, 0xFF), halves of that pair, and
\* bytes that tell their own offset.
PayloadPattern(name) ==
  CASE name = "readings" -> <<97, 60, 127, 255, 96, 61, 127, 255, 95, 62, 127, 255>>
    [] name = "noReadingFirst" -> <<127, 255, 98, 59, 127, 70, 99, 255, 127, 255, 90, 55>>
    [] name = "offsets" -> <<1, 2, 3, 4, 5, 6, 7, 8, 9, 10, 11, 12>>

PayloadPatterns == {"readings", "noReadingFirst", "offsets"}

\* 13 October 2024, 00:00:30 and 00:01:00; a year no Date can hold.
OxDates ==
  {<<2024, 10, 13, 0, 0, 30>>, <<2130706432, 10, 13, 0, 0, 30>>}

\* The well-formed files.  The payload size over the sample count is a
\* multiple of a quarter, so that the cursor arithmetic of the loader is exact.
OxFiles ==
  {OxBuffer(h, d, n, SubSeq(PayloadPattern(p), 1, len)) :
     <<h, d, n, p, len>> \in
       {x \in {0, 2} \X OxDates \X (0..MaxOxSamples) \X PayloadPatterns \X (0..MaxOxPayload) :
          x[3] = 0 \/ (4 * x[5]) % x[3] = 0}}

\* Files with a malformed header: no bytes, one byte, a pointer past the end
\* of the file, and a header block cut short by one byte.
OxMalformedFiles ==
  {<<>>, <<2>>, <<2, 0>>, <<255, 255, 0, 0>>,
   SubSeq(OxBuffer(2, <<2024, 10, 13, 0, 0, 30>>, 0, <<>>), 1, 229)}

OxSecondFiles ==
  {<<>>, <<2, 0>>,
   OxBuffer(2, <<2024, 10, 13, 0, 1, 0>>, 1, <<97, 60>>)}

OxDirectories ==
  {<<[path |-> "a.spo2", file |-> f]>> : f \in OxFiles \cup OxMalformedFiles}
  \cup {<<[path |-> "a.spo2", file |-> f], [path |-> "B.SPO2", file |-> g]>> :
          f \in OxFiles \cup OxMalformedFiles, g \in OxSecondFiles}
  \cup {<<[path |-> "notes.txt", file |-> <<>>], [path |-> "a.spo2", file |-> f]>> :
          f \in OxMalformedFiles \cup OxSecondFiles}
  \cup {<<[path |-> "B.SPO2", file |-> g], [path |-> "a.spo2", file |-> f],
          [path |-> "notes.txt", file |-> <<>>]>> :
          f \in OxMalformedFiles \cup OxSecondFiles, g \in OxSecondFiles}

\* path.toLowerCase().endsWith(".spo2")
IsSpo2Path(path) == endsWith(toLowerCase(path), Chars(".spo2"))

\* The index (0-based) of the next entry from i on that the loop of sessions
\* does not pass over, Len(entries) when there is none.
RECURSIVE NextSpo2(_, _)
NextSpo2(entries, i) ==
  IF i >= Len(entries) THEN Len(entries)
  ELSE IF IsSpo2Path(entries[i + 1].path) THEN i
  ELSE NextSpo2(entries, i + 1)

\* sessions: from entry i on, up to the next await or to the return.
OxAdvance(i) ==
  LET next == NextSpo2(oxDirectory, i)
  IN /\ oxi' = next
     /\ oxpc' = IF next = Len(oxDirectory) THEN "returned sessions" ELSE "sessions"

\* sessions is called: everything up to the first await.
OxSessionsCall ==
  /\ oxpc = "idle"
  /\ OxAdvance(0)
  /\ oxSessions' = <<>>
  /\ oxProgressLog' = <<>>
  /\ UNCHANGED <<oxDirectory, oxOnProgress, oxSession, oxFile>>
  /\ UNCHANGED <<loadVars, callVars, appVars>>

\* sessions after "await file.arrayBuffer()": the rest of this turn of the
\* loop and the turns that do not await.
OxSessionsResume ==
  /\ oxpc = "sessions"
  /\ LET entry == oxDirectory[oxi + 1]
         headerInfo == parseHeader(entry.file)
     IN IF headerInfo.type = "RangeError"
        THEN /\ oxpc' = "threw sessions"
             /\ UNCHANGED <<oxi, oxSessions, oxProgressLog>>
        ELSE IF headerInfo.type = "null"
        THEN /\ OxAdvance(oxi + 1)
             /\ UNCHANGED <<oxSessions, oxProgressLog>>
        ELSE /\ OxAdvance(oxi + 1)
             /\ oxSessions' = Append(oxSessions,
                                     [start |-> headerInfo.start,
                                      end |-> OxEnd(headerInfo.start, headerInfo.samples),
                                      files |-> <<entry>>])
             /\ oxProgressLog' = IF oxOnProgress
                                 THEN Append(oxProgressLog, OxPercent(oxi, Len(oxDirectory)))
                                 ELSE oxProgressLog
  /\ UNCHANGED <<oxDirectory, oxOnProgress, oxSession, oxFile>>
  /\ UNCHANGED <<loadVars, callVars, appVars>>

\* loadSession is called with one of the sessions found: up to its await.
OxLoadSessionCall ==
  /\ oxpc = "returned sessions"
  /\ \E k \in 1..Len(oxSessions) : oxSession' = oxSessions[k]
  /\ oxpc' = "loadSession"
  /\ oxProgressLog' = <<>>
  /\ UNCHANGED <<oxDirectory, oxOnProgress, oxi, oxSessions, oxFile>>
  /\ UNCHANGED <<loadVars, callVars, appVars>>

\* loadSession after "await spo2File.arrayBuffer()": it runs to its end.
OxLoadSessionResume ==
  /\ oxpc = "loadSession"
  /\ LET r == OxLoad(oxSession.files[1].file, oxOnProgress)
     IN IF r.type = "throw"
        THEN /\ oxpc' = "threw loadSession"
             /\ UNCHANGED <<oxFile, oxProgressLog>>
        ELSE /\ oxpc' = "returned loadSession"
             /\ oxFile' = r.file
             /\ oxProgressLog' = r.progress
  /\ UNCHANGED <<oxDirectory, oxOnProgress, oxi, oxSessions, oxSession>>
  /\ UNCHANGED <<loadVars, callVars, appVars>>

OxInit ==
  /\ oxDirectory \in OxDirectories
  /\ oxOnProgress \in BOOLEAN
  /\ oxpc = "idle"
  /\ oxi = 0
  /\ oxSessions = <<>>
  /\ oxProgressLog = <<>>
  /\ oxSession = None
  /\ oxFile = None
  /\ AppInit
  /\ fn = None /\ arg = None /\ ret = None
  /\ session = [start |-> 0, end |-> 0, files |-> <<>>]
  /\ onProgress = FALSE
  /\ lpc = "unused"
  /\ fileNo = 0
  /\ tree = <<>>
  /\ processedFiles = 0
  /\ progressLog = <<>>
  /\ candidates = None
  /\ window = None
  /\ edfFile = None

OxNext ==
  \/ OxSessionsCall
  \/ OxSessionsResume
  \/ OxLoadSessionCall
  \/ OxLoadSessionResume

OxSpec == OxInit /\ [][OxNext]_vars

\* ------------------------------------------- the loaders, called directly
\* ResMedLoader.sessions called on a directory, with or without a progress
\* callback; lpc is then "before sessions", "sessions" (awaiting a buffer),
\* "returned sessions" or "threw sessions", scan holds the locals of the call
\* and progressLog the values passed to the callback.

\* sessions is called: everything up to the first await.
SessionsCall ==
  /\ lpc = "before sessions"
  /\ scan' = [sessionFiles |-> SessionFiles(directory), i |-> 0,
              sessions |-> <<>>, processedFiles |-> 0]
  /\ lpc' = IF SessionFiles(directory) = <<>> THEN "returned sessions" ELSE "sessions"
  /\ UNCHANGED <<session, onProgress, fileNo, tree, processedFiles, progressLog,
                 candidates, window, edfFile>>
  /\ UNCHANGED <<appFiles, error, loading, progress, selectedLoader, sessions,
                 directory, apc, calls>>
  /\ UNCHANGED <<callVars, oxVars>>

\* sessions after "await file.arrayBuffer()": one turn of its loop.
SessionsResume ==
  /\ lpc = "sessions"
  /\ LET entry == scan.sessionFiles[scan.i + 1]
         last == scan.i + 1 = Len(scan.sessionFiles)
     IN IF ~entry.file.readable
        THEN /\ lpc' = "threw sessions"
             /\ UNCHANGED <<scan, progressLog>>
        ELSE IF entry.file.dataRecords <= 0
        THEN /\ scan' = [scan EXCEPT !.i = @ + 1]
             /\ lpc' = IF last THEN "returned sessions" ELSE "sessions"
             /\ UNCHANGED progressLog
        ELSE /\ lpc' = IF last THEN "returned sessions" ELSE "sessions"
             /\ IF onProgress
                THEN /\ scan' = [scan EXCEPT
                                   !.i = @ + 1,
                                   !.sessions = Append(@, SessionOf(directory, entry)),
                                   !.processedFiles = @ + 1]
                     /\ progressLog' =
                          Append(progressLog,
                                 Percent(scan.processedFiles + 1, Len(scan.sessionFiles)))
                ELSE /\ scan' = [scan EXCEPT
                                   !.i = @ + 1,
                                   !.sessions = Append(@, SessionOf(directory, entry))]
                     /\ UNCHANGED progressLog
  /\ UNCHANGED <<session, onProgress, fileNo, tree, processedFiles,
                 candidates, window, edfFile>>
  /\ UNCHANGED <<appFiles, error, loading, progress, selectedLoader, sessions,
                 directory, apc, calls>>
  /\ UNCHANGED <<callVars, oxVars>>

\* The directories sessions is called on: those handleUpload builds.
SessionsInit ==
  /\ directory \in {DirectoryOf(selectedFiles, Len(selectedFiles)) :
                      selectedFiles \in Selections}
  /\ onProgress \in BOOLEAN
  /\ lpc = "before sessions"
  /\ scan = None
  /\ progressLog = <<>>
  /\ session = [start |-> 0, end |-> 0, files |-> <<>>]
  /\ fileNo = 0
  /\ tree = <<>>
  /\ processedFiles = 0
  /\ candidates = None
  /\ window = None
  /\ edfFile = None
  /\ appFiles = <<>>
  /\ error = None
  /\ loading = FALSE
  /\ progress = 0
  /\ selectedLoader = None
  /\ sessions = <<>>
  /\ apc = "idle"
  /\ calls = <<>>
  /\ OxUnused
  /\ fn = None /\ arg = None /\ ret = None

\* One call of one loader: loadSession or sessions of ResMedLoader, or
\* sessions and then loadSession of SpO2AssistantLoader.
LoadersInit == Init \/ SessionsInit \/ OxInit

LoadersNext ==
  \/ LoadSessionStart
  \/ LoadSessionNoFiles
  \/ FileRejected
  \/ FileSkipped
  \/ FileInserted
  \/ SessionsCall
  \/ SessionsResume
  \/ OxSessionsCall
  \/ OxSessionsResume
  \/ OxLoadSessionCall
  \/ OxLoadSessionResume

LoadersSpec == LoadersInit /\ [][LoadersNext]_vars

\* ------------------------------------------------------ the merged output
\* The merged output as loadSession returns it, and as mergeSignals and
\* postProcess build it from any argument: one call of loadSession, or one
\* application of one function.
MergeInit == Init \/ CallInit

MergeNext ==
  \/ LoadSessionStart
  \/ LoadSessionNoFiles
  \/ FileRejected
  \/ FileSkipped
  \/ FileInserted
  \/ CallFindCommonTimeRange
  \/ CallMergeSignals
  \/ CallPostProcess
  \/ CallCanonicalizeLabels

MergeSpec == MergeInit /\ [][MergeNext]_vars

\* ================================================================= claims
\* The span [start, end] of a File Record, in milliseconds.
SpanStart(r) == r.header.startTime

SpanEnd(r) == r.header.startTime + r.duration

\* The case of C1: findCommonTimeRange has returned for two File Records whose
\* spans overlap and a positive record duration.
C1_Case ==
  /\ fn = "returned findCommonTimeRange"
  /\ Len(arg.files) = 2
  /\ arg.recordDuration.fin /\ arg.recordDuration.v > 0
  /\ Max2(SpanStart(arg.files[1]), SpanStart(arg.files[2]))
       <= Min2(SpanEnd(arg.files[1]), SpanEnd(arg.files[2]))

\* C1: for two File Records whose spans overlap and a positive recordDuration,
\* the window findCommonTimeRange returns starts no earlier than the later
\* start, ends no later than the earlier end, and its length is a whole number
\* of records ((end - start) mod (recordDuration * 1000 ms) = 0).
C1_AlignedWindow ==
  C1_Case =>
    /\ ret.start.fin /\ ret.end.fin
    /\ ret.start.v >= Max2(SpanStart(arg.files[1]), SpanStart(arg.files[2]))
    /\ ret.end.v <= Min2(SpanEnd(arg.files[1]), SpanEnd(arg.files[2]))
    /\ (ret.end.v - ret.start.v) % (arg.recordDuration.v * 1000) = 0

\* Witness of C1: the overlap of the two records is not a whole number of
\* records, and the returned end was moved down to a record boundary.
C1_Witness ==
  /\ C1_Case
  /\ (Min2(SpanEnd(arg.files[1]), SpanEnd(arg.files[2]))
        - Max2(SpanStart(arg.files[1]), SpanStart(arg.files[2])))
       % (arg.recordDuration.v * 1000) # 0
  /\ ret.end.fin
  /\ ret.end.v < Min2(SpanEnd(arg.files[1]), SpanEnd(arg.files[2]))
  /\ ret.end.v > ret.start.v

\* The canonical names of the synonym table.
CanonicalNames == {CANONICAL_NAMES[e].canonical : e \in 1..Len(CANONICAL_NAMES)}

AliasNames == UNION {Range(CANONICAL_NAMES[e].aliases) : e \in 1..Len(CANONICAL_NAMES)}

\* C9: canonicalizeLabels is idempotent under CANONICAL_NAMES: applying it to
\* its own result changes nothing, a list of canonical labels is returned
\* unchanged, and no canonical name is an alias in the table.
C9_Idempotent ==
  /\ CanonicalNames \cap AliasNames = {}
  /\ fn = "returned canonicalizeLabels" =>
       /\ ret.twice = ret.once
       /\ (\A i \in 1..Len(arg) : arg[i].label \in CanonicalNames) => ret.once = arg

\* Witness of C9: a list with an alias was canonicalized (the label changed),
\* and a list of canonical labels was canonicalized.
C9_Witness ==
  /\ fn = "returned canonicalizeLabels"
  /\ Len(arg) = 2
  /\ arg[1].label = "Press.40ms" /\ ret.once[1].label = "MaskPressure"
  /\ arg[2].label = "Flow" /\ ret.once[2].label = "Flow"
  /\ ret.twice = ret.once

\* The first channel of a file whose lower-cased label contains needle (0: none).
FirstMatch(file, needle) ==
  LET hits == {i \in 1..Len(file.header.signals) :
                 includes(toLowerCase(file.header.signals[i].label), needle)}
  IN IF hits = {} THEN 0 ELSE SetMin(hits)

\* No sample of channel i of the file is > 0.
NoReading(file, i) == \A k \in 1..Len(file.values[i]) : ~(file.values[i][k] > 0)

\* The optional-sensor channels postProcess has to remove from a file.
Unfitted(file) ==
  {i \in {FirstMatch(file, <<"s", "p", "o", "2">>), FirstMatch(file, <<"p", "u", "l", "s", "e">>)} :
     i # 0 /\ NoReading(file, i)}

\* The indices of a file's channels outside the set gone, in order.
RECURSIVE Remaining(_, _, _)
Remaining(n, gone, i) ==
  IF i > n THEN <<>>
  ELSE (IF i \in gone THEN <<>> ELSE <<i>>) \o Remaining(n, gone, i + 1)

\* C8: postProcess leaves the file unchanged iff each optional-sensor channel
\* (the first channel whose label contains "spo2", the first whose label
\* contains "pulse", case-insensitively) is absent or has a sample > 0;
\* otherwise it removes exactly the descriptor and the sample array of each
\* such channel without a sample > 0, decrements signalCount by one for each,
\* and keeps every other channel, its samples and their order.
C8_PostProcess ==
  fn = "returned postProcess" =>
    LET gone == Unfitted(arg)
        left == Remaining(Len(arg.header.signals), gone, 1)
    IN /\ ret.header.signals = [k \in 1..Len(left) |-> arg.header.signals[left[k]]]
       /\ ret.values = [k \in 1..Len(left) |-> arg.values[left[k]]]
       /\ ret.header.signalCount = arg.header.signalCount - Cardinality(gone)
       /\ ret.annotations = arg.annotations
       /\ [ret.header EXCEPT !.signals = <<>>, !.signalCount = 0]
            = [arg.header EXCEPT !.signals = <<>>, !.signalCount = 0]
       /\ (ret = arg) <=> (gone = {})

\* Witness of C8: an SpO2 channel with a run of zeros and then a 5 is kept,
\* and the Pulse channel of the same file, all zeros, is removed.
C8_Witness ==
  /\ fn = "returned postProcess"
  /\ Len(arg.header.signals) = 3
  /\ arg.header.signals[1].label = "SpO2" /\ arg.values[1] = <<0, 0, 0, 5>>
  /\ arg.header.signals[2].label = "Pulse" /\ arg.values[2] = <<0, 0, 0>>
  /\ arg.header.signals[3].label = "Flow"
  /\ Len(ret.header.signals) = 2
  /\ ret.header.signals[1].label = "SpO2" /\ ret.values[1] = <<0, 0, 0, 5>>
  /\ ret.header.signals[2].label = "Flow"
  /\ ret.header.signalCount = 2

\* Every annotation of the candidate files with the start of its file, in
\* file order.
RECURSIVE AnnotationsIn(_, _)
AnnotationsIn(files, f) ==
  IF f > Len(files) THEN <<>>
  ELSE [k \in 1..Len(files[f].annotations) |->
          [fileStart |-> files[f].header.startTime, ann |-> files[f].annotations[k]]]
       \o AnnotationsIn(files, f + 1)

\* The absolute time fileStart + onset * 1000 lies in [windowStart, windowEnd].
InClosedWindow(x, start, end) ==
  /\ start.fin /\ end.fin
  /\ start.v <= x.fileStart + x.ann.onset
  /\ x.fileStart + x.ann.onset <= end.v

\* C7: mergeSignals retains exactly the annotations whose absolute time
\* fileStart + onset * 1000 lies in the closed interval [windowStart, windowEnd],
\* in order; each retained annotation has its onset shifted by
\* (fileStart - windowStart) / 1000 and its description and duration unchanged.
C7_Annotations ==
  fn = "returned mergeSignals" =>
    LET kept == SelectSeq(AnnotationsIn(arg.overlappingFiles, 1),
                          LAMBDA x : InClosedWindow(x, arg.start, arg.end))
    IN /\ Len(ret.annotations) = Len(kept)
       /\ \A k \in 1..Len(kept) :
            /\ ret.annotations[k].onset - kept[k].ann.onset = kept[k].fileStart - arg.start.v
            /\ ret.annotations[k].description = kept[k].ann.description
            /\ ret.annotations[k].duration = kept[k].ann.duration

\* Witness of C7: of the three annotations of a file one lies before the
\* window and is dropped, one lies exactly at the window's end and is retained,
\* and the onsets of the retained ones are shifted by a non-zero amount.
C7_Witness ==
  /\ fn = "returned mergeSignals"
  /\ Len(arg.overlappingFiles) = 1
  /\ Len(arg.overlappingFiles[1].annotations) = 3
  /\ arg.end.fin
  /\ arg.overlappingFiles[1].header.startTime # arg.start.v
  /\ Len(ret.annotations) = 2
  /\ \E k \in 1..3 :
       arg.overlappingFiles[1].header.startTime
         + arg.overlappingFiles[1].annotations[k].onset = arg.end.v
  /\ \E k \in 1..3 :
       arg.overlappingFiles[1].header.startTime
         + arg.overlappingFiles[1].annotations[k].onset < arg.start.v

\* Channel k of a merged output is a contiguous slice of channel c of file f,
\* the channel whose descriptor it carries.
SliceOf(signals, values, files, k, f, c) ==
  /\ files[f].header.signals[c] = signals[k]
  /\ \E a \in 0..Len(files[f].values[c]) : \E b \in a..Len(files[f].values[c]) :
       values[k] = SubSeq(files[f].values[c], a + 1, b)

\* C6: in the output of mergeSignals every label of the candidates appears on
\* exactly one channel, and the sample array of each channel is a contiguous
\* slice of the sample array of the one candidate channel that supplies its
\* descriptor.
C6_OneSourcePerChannel ==
  fn = "returned mergeSignals" =>
    LET files == arg.overlappingFiles
    IN /\ Len(ret.values) = Len(ret.signals)
       /\ \A j, k \in 1..Len(ret.signals) :
            ret.signals[j].label = ret.signals[k].label => j = k
       /\ {ret.signals[k].label : k \in 1..Len(ret.signals)}
            = UNION {{files[f].header.signals[c].label :
                        c \in 1..Len(files[f].header.signals)} : f \in 1..Len(files)}
       /\ \A k \in 1..Len(ret.signals) :
            \E f \in 1..Len(files) : \E c \in 1..Len(files[f].header.signals) :
              SliceOf(ret.signals, ret.values, files, k, f, c)

\* Witness of C6: two candidates carry the label MaskPressure, and the merged
\* MaskPressure channel holds some but not all samples of one of them.
C6_Witness ==
  /\ fn = "returned mergeSignals"
  /\ Len(arg.overlappingFiles) = 2
  /\ \A f \in 1..2 : \E c \in 1..Len(arg.overlappingFiles[f].header.signals) :
       arg.overlappingFiles[f].header.signals[c].label = "MaskPressure"
  /\ \E k \in 1..Len(ret.signals) :
       /\ ret.signals[k].label = "MaskPressure"
       /\ Len(ret.values[k]) > 0
       /\ \E f \in 1..2 : \E c \in 1..Len(arg.overlappingFiles[f].header.signals) :
            /\ SliceOf(ret.signals, ret.values, arg.overlappingFiles, k, f, c)
            /\ Len(ret.values[k]) < Len(arg.overlappingFiles[f].values[c])

\* The channels <<f, c>> of a list of File Records.
ChannelsOf(files) ==
  UNION {{<<f, c>> : c \in 1..Len(files[f].header.signals)} : f \in 1..Len(files)}

\* The case of C3: mergeSignals has returned for a non-empty candidate set and
\* a valid window that lies within the span of every candidate, as the common
\* time range of the candidates does.
C3_Case ==
  /\ fn = "returned mergeSignals"
  /\ arg.overlappingFiles # <<>>
  /\ arg.start.fin /\ arg.end.fin
  /\ arg.start.v <= arg.end.v
  /\ \A f \in 1..Len(arg.overlappingFiles) :
       /\ SpanStart(arg.overlappingFiles[f]) <= arg.start.v
       /\ arg.end.v <= SpanEnd(arg.overlappingFiles[f])

\* C3 (as claimed): for every channel of the output of mergeSignals on a
\* non-empty candidate set, the length of the extracted sample array differs by
\* at most 1 from (end - start) * samplesPerRecord / recordDurationMs of the
\* channel's file, also for files that declare record duration 0 or whose end
\* was forced to the session's end.
C3_LengthWithinOneSample ==
  C3_Case =>
    \A k \in 1..Len(ret.signals) :
      \A x \in ChannelsOf(arg.overlappingFiles) :
        arg.overlappingFiles[x[1]].header.signals[x[2]] = ret.signals[k] =>
          LET recordDurationMs == arg.overlappingFiles[x[1]].header.recordDuration * 1000
          IN /\ recordDurationMs # 0
             /\ Abs(Len(ret.values[k]) * recordDurationMs
                      - (arg.end.v - arg.start.v) * ret.signals[k].samplesPerRecord)
                  <= recordDurationMs

\* The scenario of C2: the session's files are three recordings of Flow.40ms,
\* one after the other, and the session spans all three.
C2_Scenario ==
  /\ Len(session.files) = 3
  /\ \A i \in 1..3 :
       /\ Len(session.files[i].header.signals) = 1
       /\ session.files[i].header.signals[1].label = "Flow.40ms"
       /\ session.files[i].header.recordDuration = recordDuration
       /\ session.files[i].header.dataRecords > 0
  /\ \A i \in 1..2 : FileEnd(session.files[i]) = session.files[i + 1].header.startTime
  /\ session.start = session.files[1].header.startTime
  /\ session.end = FileEnd(session.files[3])

\* C2 (as claimed): reconciling three consecutive Flow.40ms recordings with a
\* session window spanning all three yields exactly one channel, labelled
\* "Flow", that holds every sample of the three files once, in time order.
C2_ThreeFilesMerged ==
  (lpc = "done" /\ C2_Scenario) =>
    /\ Len(edfFile.header.signals) = 1
    /\ edfFile.header.signals[1].label = "Flow"
    /\ edfFile.values = << session.files[1].values[1] \o session.files[2].values[1]
                             \o session.files[3].values[1] >>

\* C4 (as claimed): in the EDFFile loadSession returns, every channel's sample
\* array has header.dataRecords * samplesPerRecord samples.
C4_LengthIsRecordsTimesRate ==
  lpc = "done" =>
    \A i \in 1..Len(edfFile.header.signals) :
      /\ edfFile.header.dataRecords.fin
      /\ Len(edfFile.values[i])
           = edfFile.header.dataRecords.v * edfFile.header.signals[i].samplesPerRecord

\* The channel of a label that a list of File Records makes mergeSignals
\* choose under "highest samplesPerRecord, then first file, then first
\* channel of the file": its signal id.
ChoiceOf(files, label) ==
  LET with == {x \in ChannelsOf(files) : files[x[1]].header.signals[x[2]].label = label}
      top == SetMax({files[x[1]].header.signals[x[2]].samplesPerRecord : x \in with})
      best == {x \in with : files[x[1]].header.signals[x[2]].samplesPerRecord = top}
      f == SetMin({x[1] : x \in best})
      c == SetMin({x[2] : x \in {y \in best : y[1] = f}})
  IN files[f].header.signals[c].id

LabelsOf(files) == {files[x[1]].header.signals[x[2]].label : x \in ChannelsOf(files)}

\* The File Records of the tree that meet the session, in insertion order
\* (the order of session.files).
InsertedCandidates ==
  LET hits == SelectSeq(tree, LAMBDA e : e.low <= session.end /\ e.high >= session.start)
  IN [k \in 1..Len(hits) |-> hits[k].data]

IsOptionalSensor(label) ==
  \/ includes(toLowerCase(label), <<"s", "p", "o", "2">>)
  \/ includes(toLowerCase(label), <<"p", "u", "l", "s", "e">>)

\* The channels of the returned file are the choices, one per label of the
\* File Records in files (an optional-sensor channel may have been removed).
ChannelsAreChoicesOf(files) ==
  /\ \A k \in 1..Len(edfFile.header.signals) :
       /\ edfFile.header.signals[k].label \in LabelsOf(files)
       /\ edfFile.header.signals[k].id = ChoiceOf(files, edfFile.header.signals[k].label)
  /\ \A l \in LabelsOf(files) :
       IsOptionalSensor(l) \/ \E k \in 1..Len(edfFile.header.signals) :
                                 edfFile.header.signals[k].label = l

\* C5 (as claimed): the channel of each label is the candidate channel with
\* the highest samplesPerRecord; among equals, the one of the File Record
\* inserted first (session.files order), then the earliest channel of the file.
C5_FirstInsertedWins == lpc = "done" => ChannelsAreChoicesOf(InsertedCandidates)

\* C5 (amended): the channel of each label is the candidate channel with the
\* highest samplesPerRecord; among equals, the one of the File Record that
\* comes first in the list the interval tree's search returned, then the
\* earliest channel of the file.
C5_FirstCandidateWins == lpc = "done" => ChannelsAreChoicesOf(candidates)

\* Witness of C5: two candidates tie on Flow (3 samples per record each) and
\* the first candidate's channel is in the output, while MaskPressure comes
\* from the one channel with 3 samples per record although channels with 2
\* come before it.
C5_Witness ==
  /\ lpc = "done"
  /\ Len(candidates) = 2
  /\ \E k \in 1..Len(edfFile.header.signals) :
       /\ edfFile.header.signals[k].label = "Flow"
       /\ \E c \in 1..Len(candidates[1].header.signals) :
            candidates[1].header.signals[c] = edfFile.header.signals[k]
       /\ \E c \in 1..Len(candidates[2].header.signals) :
            /\ candidates[2].header.signals[c].label = "Flow"
            /\ candidates[2].header.signals[c].samplesPerRecord
                 = edfFile.header.signals[k].samplesPerRecord
  /\ \E k \in 1..Len(edfFile.header.signals) :
       /\ edfFile.header.signals[k].label = "MaskPressure"
       /\ edfFile.header.signals[k].samplesPerRecord = 3
       /\ \E c \in 1..Len(candidates[1].header.signals) :
            /\ candidates[1].header.signals[c].label = "MaskPressure"
            /\ candidates[1].header.signals[c].samplesPerRecord = 2
       /\ \E c \in 1..Len(candidates[2].header.signals) :
            candidates[2].header.signals[c] = edfFile.header.signals[k]

\* ----------------------------------------------------------------------- C10
\* An upload has run to its end: handleUpload is the handler that ran last,
\* and it left either an error or a list of sessions.
UploadEnded ==
  /\ apc = "idle"
  /\ error # None \/ Len(sessions) > 0
  /\ calls = <<>> \/ calls[1] = "sessions"

\* The value validateDirectory resolves to, for every registered loader.
Validates(dir) ==
  \E i \in 1..Len(loaders) : validateDirectory(loaders[i], dir).value.value

\* C10: when no registered loader's validateDirectory yields true for the
\* selected directory, the upload ends with the "no compatible loader" error,
\* sessions() is not invoked and no session is listed; the "no valid sessions"
\* error is reached only when a loader validated the directory and its
\* sessions() returned nothing.
C10_NoCompatibleLoader ==
  /\ UploadEnded /\ ~Validates(directory) =>
       /\ error = NoLoaderError
       /\ calls = <<>>
       /\ sessions = <<>>
  /\ UploadEnded /\ error = NoSessionsError =>
       /\ Validates(directory)
       /\ calls = <<"sessions">>

\* ----------------------------------------------------------------------- C11
\* The file declares a record duration that is neither 60 nor 0.
UnexpectedRecordDuration(raw) ==
  raw.header.recordDuration # recordDuration /\ raw.header.recordDuration # 0

\* C11: loadSession throws, and returns nothing, when a file of session.files
\* declares a record duration that is neither 60 nor 0: it fails at the first
\* such file, reads no file after it, and returns only when there is no such
\* file.
C11_UnexpectedRecordDurationIsFatal ==
  /\ lpc = "failed" =>
       /\ edfFile = None
       /\ fileNo >= 1
       /\ UnexpectedRecordDuration(session.files[fileNo])
       /\ \A j \in 1..(fileNo - 1) : ~UnexpectedRecordDuration(session.files[j])
  /\ lpc = "loading" =>
       \A j \in 1..fileNo : ~UnexpectedRecordDuration(session.files[j])
  /\ lpc = "done" =>
       /\ fileNo = Len(session.files)
       /\ \A j \in 1..Len(session.files) : ~UnexpectedRecordDuration(session.files[j])

\* Witness of C11: the first file was inserted and the second one, which
\* declares 30 seconds, made loadSession throw.
C11_Witness ==
  /\ lpc = "failed"
  /\ fileNo = 2
  /\ Len(tree) = 1
  /\ session.files[2].header.recordDuration = 30

\* ----------------------------------------------------------------------- C12
\* C12 (as claimed): a file of session.files that declares a non-positive
\* record count is skipped without an error, whatever record duration it
\* declares, and nothing of it is inserted into the tree.
C12_EmptyFilesAreSkipped ==
  \A j \in 1..fileNo :
    session.files[j].header.dataRecords <= 0 =>
      /\ ~(lpc = "failed" /\ fileNo = j)
      /\ Len(tree) <= Cardinality({i \in 1..fileNo : session.files[i].header.dataRecords > 0})

\* ----------------------------------------------------------------------- C13
\* The entries of the directory that are .spo2 files with a well-formed header.
OxWellFormed(entries) ==
  {i \in 1..Len(entries) :
     /\ IsSpo2Path(entries[i].path)
     /\ Len(entries[i].file) >= 2
     /\ getUint16(entries[i].file, 0) + 228 <= Len(entries[i].file)}

\* C13 (as claimed): whatever the bytes of a .spo2 file are, sessions() does
\* not fail, it returns one session for each of the well-formed files, and
\* loadSession does not fail either.
C13_MalformedHeaderIsSkipped ==
  /\ oxpc # "threw sessions"
  /\ oxpc # "threw loadSession"
  /\ oxpc = "returned sessions" =>
       Len(oxSessions) = Cardinality(OxWellFormed(oxDirectory))

\* ----------------------------------------------------------------------- C14
\* The header of the file loadSession was given, and the size of its payload.
OxHeaderOffset == getUint16(oxSession.files[1].file, 0)

OxSamples == getUint32(oxSession.files[1].file, OxHeaderOffset + 224)

OxPayload == Len(oxSession.files[1].file) - (OxHeaderOffset + 228)

\* The offset of the byte pair that is decoded as sample i (0-based): the
\* cursor of the loop when payload * 4 is a multiple of samples.
OxPairOffset(i) ==
  IF OxPayload > 2 * OxSamples
  THEN FloorDiv((OxHeaderOffset + 228) * OxSamples + (i + 1) * OxPayload - 2 * OxSamples,
                OxSamples)
  ELSE OxHeaderOffset + 228 + 2 * i

\* C14: the sample decoded at index k is 0 on both channels when its byte pair
\* is (0x7F, 0xFF), and is the two bytes themselves for every other pair; the
\* two channels have one value for every pair.
C14_NoReadingIsZero ==
  oxpc = "returned loadSession" =>
    /\ Len(oxFile.values[1]) = Len(oxFile.values[2])
    /\ \A k \in 1..Len(oxFile.values[1]) :
         LET spo2 == oxSession.files[1].file[OxPairOffset(k - 1) + 1]
             pulse == oxSession.files[1].file[OxPairOffset(k - 1) + 2]
         IN IF spo2 = 127 /\ pulse = 255
            THEN oxFile.values[1][k] = 0 /\ oxFile.values[2][k] = 0
            ELSE oxFile.values[1][k] = spo2 /\ oxFile.values[2][k] = pulse

\* Witness of C14: a reading followed by the pair (0x7F, 0xFF).
C14_Witness ==
  /\ oxpc = "returned loadSession"
  /\ OxPayload = 4 /\ OxSamples = 2
  /\ oxSession.files[1].file[OxHeaderOffset + 228 + 3] = 127
  /\ oxSession.files[1].file[OxHeaderOffset + 228 + 4] = 255
  /\ oxFile.values = << <<97, 0>>, <<60, 0>> >>

\* ----------------------------------------------------------------------- C15
\* C15 (as claimed): with bytesPerRecord = payload / samples a whole number of
\* at least 2, sample i is decoded from the first two bytes of record i, at
\* offset payloadStart + i * bytesPerRecord.
C15_FirstTwoBytesOfRecord ==
  (/\ oxpc = "returned loadSession"
   /\ OxSamples > 0
   /\ OxPayload % OxSamples = 0
   /\ OxPayload >= 2 * OxSamples) =>
    /\ Len(oxFile.values[1]) = OxSamples
    /\ \A k \in 1..Len(oxFile.values[1]) :
         LET bytesPerRecord == OxPayload \div OxSamples
             offset == OxHeaderOffset + 228 + (k - 1) * bytesPerRecord
             spo2 == oxSession.files[1].file[offset + 1]
             pulse == oxSession.files[1].file[offset + 2]
         IN IF spo2 = 127 /\ pulse = 255
            THEN oxFile.values[1][k] = 0 /\ oxFile.values[2][k] = 0
            ELSE oxFile.values[1][k] = spo2 /\ oxFile.values[2][k] = pulse

\* ----------------------------------------------------------------------- C16
\* C16 (as claimed): during discovery the progress reported is
\* round(100 * k / N) for k of the N marker files processed so far, skipped
\* ones included, and a discovery that had a marker file and ran to its end
\* has reported 100 last.
C16_DiscoveryProgress ==
  /\ (apc = "sessions" /\ scan.i >= 1) =>
       progress = Percent(scan.i, Len(scan.sessionFiles))
  /\ (UploadEnded /\ error # HeaderError /\ SessionFiles(directory) # <<>>) =>
       progress = 100

\* ----------------------------------------------------------------------- C17
\* The entries of the directory that lie in the subdirectory of the file at
\* path itself and end with .edf, keyed by their name in that subdirectory.
FilesBeside(dir, path) ==
  LET kept == SelectPaths(dir, {i \in 1..Len(dir) :
                                  /\ DirPath(dir[i].path) = DirPath(path)
                                  /\ endsWith(Lower(dir[i].path), Chars(".edf"))}, 1)
  IN [i \in 1..Len(kept) |->
        [path |-> SubSeq(kept[i].path, LastIndexOf(kept[i].path, "/", Len(kept[i].path)) + 1,
                         Len(kept[i].path)),
         file |-> kept[i].file]]

\* C17 (as claimed): the files of every session that discovery lists are the
\* .edf entries of the marker file's own subdirectory, nested subdirectories
\* excluded, keyed relative to it, and the marker file is one of them, also
\* when it sits at the root of the directory.
C17_SessionFilesAreSiblings ==
  (UploadEnded /\ Len(sessions) > 0) =>
    \A k \in 1..Len(sessions) :
      \E m \in 1..Len(SessionFiles(directory)) :
        LET marker == SessionFiles(directory)[m]
        IN /\ marker.file.readable
           /\ marker.file.dataRecords > 0
           /\ sessions[k].start = marker.file.startTime
           /\ sessions[k].files = FilesBeside(directory, marker.path)
           /\ \E j \in 1..Len(sessions[k].files) :
                sessions[k].files[j].file = marker.file

\* ----------------------------------------------------------------------- C18
\* The files read so far that were inserted into the tree, in order.
InsertedFiles ==
  SelectPaths(session.files,
              {j \in 1..fileNo : /\ session.files[j].header.dataRecords > 0
                                 /\ ~UnexpectedRecordDuration(session.files[j])}, 1)

\* C18 (as claimed): a File Record is indexed under [start, start +
\* (lastRecordOffset + recordDuration) * 1000], or under [start, session.end]
\* when the file is marked EDF+D; its duration is (end - start) / 1000, and
\* start <= end.
C18_IndexedInterval ==
  lpc \in {"loading", "done", "failed"} =>
    /\ Len(tree) = Len(InsertedFiles)
    /\ \A k \in 1..Len(tree) :
         LET raw == InsertedFiles[k]
             start == raw.header.startTime
             end == IF raw.header.reserved = "EDF+D" THEN session.end
                    ELSE start + (raw.lastRecordTimestamp + raw.header.recordDuration) * 1000
         IN /\ tree[k].low = start
            /\ tree[k].high = end
            /\ tree[k].data.duration = end - start
            /\ tree[k].low <= tree[k].high

\* ----------------------------------------------------------------------- C19
\* C19: every annotation of an indexed file carries the onset the reader
\* decoded minus the annotation's own duration, and 0 where that would be
\* negative; an annotation without a duration keeps its onset; duration and
\* description are the decoded ones.
C19_OnsetCorrection ==
  lpc \in {"loading", "done", "failed"} =>
    \A k \in 1..Len(tree) :
      LET decoded == InsertedFiles[k].annotations
          kept == tree[k].data.annotations
      IN /\ Len(kept) = Len(decoded)
         /\ \A a \in 1..Len(kept) :
              /\ kept[a].onset >= 0
              /\ kept[a].duration = decoded[a].duration
              /\ kept[a].description = decoded[a].description
              /\ decoded[a].duration = Undefined => kept[a].onset = decoded[a].onset
              /\ decoded[a].duration # Undefined =>
                   kept[a].onset = IF decoded[a].onset < decoded[a].duration.v THEN 0
                                   ELSE decoded[a].onset - decoded[a].duration.v

\* Witness of C19: an indexed file with three annotations: one without a
\* duration, one moved back by its duration, one floored at zero.
C19_Witness ==
  /\ lpc = "done"
  /\ \E k \in 1..Len(tree) :
       LET decoded == InsertedFiles[k].annotations
           kept == tree[k].data.annotations
       IN /\ Len(kept) = 3
          /\ decoded[1].duration = Undefined /\ kept[1].onset = decoded[1].onset
          /\ decoded[2].onset > decoded[2].duration.v /\ kept[2].onset > 0
             /\ kept[2].onset < decoded[2].onset
          /\ decoded[3].onset < decoded[3].duration.v /\ kept[3].onset = 0

\* ----------------------------------------------------------------------- C20
\* C20 (as claimed): when at least one file overlaps the session, the header
\* of the returned file starts at the window start, has record duration 60
\* and a record count that is a non-negative integer with
\* dataRecords * 60000 = windowEnd - windowStart.
C20_SynthesizedHeader ==
  (lpc = "done" /\ Len(candidates) >= 1) =>
    /\ edfFile.header.startTime = window.start
    /\ edfFile.header.recordDuration = 60
    /\ edfFile.header.dataRecords.fin
    /\ edfFile.header.dataRecords.v >= 0
    /\ window.start.fin /\ window.end.fin
    /\ edfFile.header.dataRecords.v * 60000 = window.end.v - window.start.v

\* ----------------------------------------------------------------------- C21
\* What a call does when no callback is supplied, as a function of its input
\* and of the number of files it has read.

\* ResMedLoader.loadSession: the tree after n files.
RECURSIVE TreeWithoutCallback(_, _)
TreeWithoutCallback(sess, n) ==
  IF n = 0 THEN <<>>
  ELSE LET r == ProcessFile(sess.files[n], sess)
       IN IF r.do = "insert"
          THEN Append(TreeWithoutCallback(sess, n - 1),
                      [low |-> r.low, high |-> r.high, data |-> r.data])
          ELSE TreeWithoutCallback(sess, n - 1)

\* ResMedLoader.sessions: the sessions found in the first n marker files.
RECURSIVE FoundWithoutCallback(_, _, _)
FoundWithoutCallback(dir, markers, n) ==
  IF n = 0 THEN <<>>
  ELSE IF markers[n].file.dataRecords > 0
  THEN Append(FoundWithoutCallback(dir, markers, n - 1), SessionOf(dir, markers[n]))
  ELSE FoundWithoutCallback(dir, markers, n - 1)

\* SpO2AssistantLoader.sessions: the sessions found in the first n entries.
RECURSIVE OxFoundWithoutCallback(_, _)
OxFoundWithoutCallback(entries, n) ==
  IF n = 0 THEN <<>>
  ELSE LET h == parseHeader(entries[n].file)
       IN IF IsSpo2Path(entries[n].path) /\ h.type = "header"
          THEN Append(OxFoundWithoutCallback(entries, n - 1),
                      [start |-> h.start, end |-> OxEnd(h.start, h.samples),
                       files |-> <<entries[n]>>])
          ELSE OxFoundWithoutCallback(entries, n - 1)

\* The entry of the directory that makes SpO2AssistantLoader.sessions throw.
OxThrows(entry) == IsSpo2Path(entry.path) /\ parseHeader(entry.file).type = "RangeError"

\* C21, ResMedLoader.loadSession: the files read, the tree, the thrown error
\* and the returned file are those of the call without callback.
C21_LoadSession ==
  lpc \in {"loading", "done", "failed"} =>
    /\ tree = TreeWithoutCallback(session, fileNo)
    /\ \A j \in 1..(fileNo - 1) : ProcessFile(session.files[j], session).do # "throw"
    /\ lpc = "failed" <=>
         (fileNo >= 1 /\ ProcessFile(session.files[fileNo], session).do = "throw")
    /\ lpc = "loading" => fileNo < Len(session.files)
    /\ lpc = "done" =>
         /\ fileNo = Len(session.files)
         /\ candidates \in SearchResults(tree, session.start, session.end)
         /\ edfFile = Reconcile(candidates)

\* C21, ResMedLoader.sessions.
C21_Sessions ==
  lpc \in {"sessions", "returned sessions", "threw sessions"} =>
    /\ scan.sessionFiles = SessionFiles(directory)
    /\ scan.sessions = FoundWithoutCallback(directory, scan.sessionFiles, scan.i)
    /\ \A j \in 1..scan.i : scan.sessionFiles[j].file.readable
    /\ lpc = "returned sessions" <=> scan.i = Len(scan.sessionFiles)
    /\ lpc = "sessions" => scan.i < Len(scan.sessionFiles)
    /\ lpc = "threw sessions" =>
         (scan.i < Len(scan.sessionFiles) /\ ~scan.sessionFiles[scan.i + 1].file.readable)

\* C21, SpO2AssistantLoader.sessions and loadSession.
C21_Ox ==
  /\ oxpc \notin {"unused", "idle"} =>
       /\ oxSessions = OxFoundWithoutCallback(oxDirectory, oxi)
       /\ \A j \in 1..oxi : ~OxThrows(oxDirectory[j])
       /\ oxpc = "threw sessions" => (oxi < Len(oxDirectory) /\ OxThrows(oxDirectory[oxi + 1]))
       /\ oxpc = "sessions" =>
            (oxi < Len(oxDirectory) /\ IsSpo2Path(oxDirectory[oxi + 1].path))
       /\ oxpc \in {"returned sessions", "loadSession", "returned loadSession",
                    "threw loadSession"} => oxi = Len(oxDirectory)
  /\ oxpc \in {"returned loadSession", "threw loadSession"} =>
       LET without == OxLoad(oxSession.files[1].file, FALSE)
       IN /\ oxpc = "threw loadSession" <=> without.type = "throw"
          /\ oxpc = "returned loadSession" => oxFile = without.file

\* C21: whether or not a progress callback is supplied, sessions and
\* loadSession of both loaders read the same files in the same order and
\* return the same value or throw at the same file.
C21_CallbackHasNoInfluence == C21_LoadSession /\ C21_Sessions /\ C21_Ox

\* Witness of C21: a loadSession that reported its progress twice and
\* returned the file of the call without callback.
C21_Witness ==
  /\ lpc = "done"
  /\ onProgress
  /\ Len(progressLog) = 2
  /\ tree = TreeWithoutCallback(session, Len(session.files))
  /\ Len(edfFile.header.signals) >= 2

\* ----------------------------------------------------------------------- C22
\* C22 (as claimed): in the file SpO2AssistantLoader.loadSession returns, the
\* SpO2 and Pulse arrays have the same length, and that length is
\* header.dataRecords * 30.
C22_LengthIsRecordsTimesRate ==
  oxpc = "returned loadSession" =>
    /\ Len(oxFile.values[1]) = Len(oxFile.values[2])
    /\ Len(oxFile.values[1]) = oxFile.header.dataRecords * OxSignals[1].samplesPerRecord

\* ----------------------------------------------------------------------- C23
\* The values are whole percentages, none smaller than the one before.
PercentagesInOrder(log) ==
  /\ \A k \in 1..Len(log) : log[k] \in 0..100
  /\ \A k \in 1..(Len(log) - 1) : log[k] <= log[k + 1]

ChannelsAligned(file) ==
  /\ file.header.signalCount = Len(file.header.signals)
  /\ Len(file.header.signals) = Len(file.values)

\* C24: the file loadSession returns has signalCount = signals.length =
\* values.length, and values[i] holds samples of the candidate channel that
\* signals[i] describes; mergeSignals pairs every descriptor with samples of
\* its own channel, and postProcess keeps the pairs it does not remove.
C24_ChannelsAligned ==
  /\ lpc = "done" =>
       /\ ChannelsAligned(edfFile)
       /\ \A k \in 1..Len(edfFile.header.signals) :
            \E f \in 1..Len(candidates) : \E c \in 1..Len(candidates[f].header.signals) :
              SliceOf(edfFile.header.signals, edfFile.values, candidates, k, f, c)
  /\ fn = "returned mergeSignals" =>
       /\ Len(ret.signals) = Len(ret.values)
       /\ \A k \in 1..Len(ret.signals) :
            \E f \in 1..Len(arg.overlappingFiles) :
              \E c \in 1..Len(arg.overlappingFiles[f].header.signals) :
                SliceOf(ret.signals, ret.values, arg.overlappingFiles, k, f, c)
  /\ fn = "returned postProcess" =>
       /\ ChannelsAligned(ret)
       /\ \A k \in 1..Len(ret.header.signals) :
            \E j \in 1..Len(arg.header.signals) :
              /\ ret.header.signals[k] = arg.header.signals[j]
              /\ ret.values[k] = arg.values[j]

\* Witness of C24: loadSession has returned a file with two channels or more
\* from which postProcess removed an oximetry channel of a candidate.
C24_Witness ==
  /\ lpc = "done"
  /\ Len(edfFile.header.signals) >= 2
  /\ \E f \in 1..Len(candidates) : \E c \in 1..Len(candidates[f].header.signals) :
       /\ includes(toLowerCase(candidates[f].header.signals[c].label), <<"s", "p", "o", "2">>)
       /\ \A k \in 1..Len(edfFile.header.signals) :
            edfFile.header.signals[k].label # candidates[f].header.signals[c].label

\* ----------------------------------------------------------------------- C25
\* The session is the one ResMedLoader.sessions builds from a marker file
\* among its files: it spans that file.
DiscoveredSession ==
  \E i \in 1..Len(session.files) :
    /\ session.files[i].header.dataRecords > 0
    /\ session.start = session.files[i].header.startTime
    /\ session.end = FileEnd(session.files[i])

\* C25 (as claimed): for a session found by ResMedLoader.sessions, the window
\* loadSession computes from the candidates is well-formed and lies inside
\* the session: session.start <= windowStart <= windowEnd <= session.end.
C25_WindowInsideSession ==
  (lpc = "done" /\ DiscoveredSession /\ Len(candidates) >= 1) =>
    /\ window.start.fin /\ window.end.fin
    /\ session.start <= window.start.v
    /\ window.start.v <= window.end.v
    /\ window.end.v <= session.end

\* ----------------------------------------------------------------------- C26
\* What the page renders (App.tsx:143 and 187).
PickerAvailable == ~loading /\ Len(appFiles) = 0

SessionListAvailable == ~loading /\ Len(sessions) > 0

\* The handler that ended last is handleUpload, and it failed.
UploadFailed ==
  apc = "idle" /\ error \in {NoLoaderError, NoSessionsError, HeaderError}

\* What holds in every state: loading is true exactly while a handler is in
\* flight, and a failed upload leaves no session, an error and the picker.
C26_States ==
  /\ apc = "idle" => ~loading
  /\ apc # "idle" => (loading /\ ~PickerAvailable /\ ~SessionListAvailable)
  /\ UploadFailed => (sessions = <<>> /\ error # None /\ PickerAvailable)

\* What holds of every step: no step taken while loading is true starts a
\* handler, and no step that changes the session list is a step of
\* handleProcessSession, failed or not.
C26_Steps ==
  /\ loading => ~(HandleUpload \/ HandleProcessSession)
  /\ sessions' # sessions => ~(HandleProcessSession \/ LoadSessionFile)
  /\ (apc = "loadSession" /\ error' = MergeError) =>
       (~loading' /\ Len(sessions') > 0 /\ sessions' = sessions)

\* C26: whenever no handler is in flight loading is false; a failed upload
\* leaves the session list empty, an error set and the file picker available;
\* a failed session load leaves the session list as it was; no upload and no
\* session load starts while loading is true.
C26_UiFlow == [](C26_States) /\ [][C26_Steps]_vars

\* Witness of C26: a session load has failed, nothing is loading and the
\* sessions found before (two of them) are still listed.
C26_Witness ==
  /\ apc = "idle"
  /\ ~loading
  /\ error = MergeError
  /\ calls = <<"loadSession">>
  /\ Len(sessions) = 2

====
